---- MODULE Spec2Model ----
(***************************************************************************)
(* A model of typhon.spareice.datasets.Dataset: path templates with time   *)
(* placeholders, the resolution of a file's time coverage from its name     *)
(* (or from the handler), the path -> interval cache and its file, the file *)
(* search, the search for the file of a timestamp, the cross-dataset search *)
(* for overlapping files, and map and map_content over a process pool.      *)
(*                                                                          *)
(* Paths, templates and regular expressions are sequences of tokens, a      *)
(* date is a record of calendar fields as python's datetime keeps it.       *)
(***************************************************************************)
EXTENDS Integers, Sequences, FiniteSets, TLC

(***************************************************************************)
(* Characters and numbers                                                   *)
(***************************************************************************)
DigitChars == <<"0", "1", "2", "3", "4", "5", "6", "7", "8", "9">>

IsDigit(c) == \E i \in 1..10 : DigitChars[i] = c

DigitVal(c) == (CHOOSE i \in 1..10 : DigitChars[i] = c) - 1

\* str(n) of a non-negative integer
RECURSIVE Str(_)
Str(n) == IF n < 10 THEN <<DigitChars[n + 1]>>
          ELSE Str(n \div 10) \o <<DigitChars[(n % 10) + 1]>>

\* "{:0wd}".format(n): zero padded to at least w characters
RECURSIVE ZeroPad(_, _)
ZeroPad(s, w) == IF Len(s) >= w THEN s ELSE ZeroPad(<<"0">> \o s, w)

Fmt(n, w) == ZeroPad(Str(n), w)

\* s[-k:] of a python string
LastChars(s, k) == IF Len(s) <= k THEN s ELSE SubSeq(s, Len(s) - k + 1, Len(s))

\* int(s) of a string of digits
RECURSIVE IntOf(_)
IntOf(s) == IF Len(s) = 0 THEN 0
            ELSE 10 * IntOf(SubSeq(s, 1, Len(s) - 1)) + DigitVal(s[Len(s)])

(***************************************************************************)
(* datetime and timedelta                                                   *)
(***************************************************************************)
DT(y, mo, d, h, mi, s, us) ==
    [year |-> y, month |-> mo, day |-> d, hour |-> h, minute |-> mi,
     second |-> s, microsecond |-> us]

TD(d, s, us) == [days |-> d, seconds |-> s, microseconds |-> us]

IsLeap(y) == y % 4 = 0 /\ (y % 100 # 0 \/ y % 400 = 0)

DaysInMonth(y, m) ==
    IF m = 2 THEN (IF IsLeap(y) THEN 29 ELSE 28)
    ELSE IF m \in {4, 6, 9, 11} THEN 30 ELSE 31

\* the days of the year before the first of month m
DaysBeforeMonth(y, m) ==
    <<0, 31, 59, 90, 120, 151, 181, 212, 243, 273, 304, 334>>[m]
    + (IF m > 2 /\ IsLeap(y) THEN 1 ELSE 0)

DaysBeforeYear(y) ==
    (y - 1) * 365 + ((y - 1) \div 4) - ((y - 1) \div 100) + ((y - 1) \div 400)

DaysInYear(y) == IF IsLeap(y) THEN 366 ELSE 365

\* date.toordinal(): 0001-01-01 is day 1
ToOrdinal(y, m, d) == DaysBeforeYear(y) + DaysBeforeMonth(y, m) + d

\* the year of an ordinal: the estimate n \div 366 + 1 is never too large
RECURSIVE YearFrom(_, _)
YearFrom(n, y) == IF n <= DaysBeforeYear(y + 1) THEN y ELSE YearFrom(n, y + 1)

YearOfOrdinal(n) == YearFrom(n, ((n - 1) \div 366) + 1)

MonthOfYearDay(y, k) ==
    CHOOSE m \in 1..12 :
        DaysBeforeMonth(y, m) < k /\ k <= DaysBeforeMonth(y, m) + DaysInMonth(y, m)

\* the moment as <<ordinal day, second of the day, microsecond>>
DtKey(dt) ==
    <<ToOrdinal(dt.year, dt.month, dt.day),
      dt.hour * 3600 + dt.minute * 60 + dt.second,
      dt.microsecond>>

FromKey(k) ==
    LET y  == YearOfOrdinal(k[1])
        yd == k[1] - DaysBeforeYear(y)
        m  == MonthOfYearDay(y, yd)
    IN  DT(y, m, yd - DaysBeforeMonth(y, m),
           k[2] \div 3600, (k[2] % 3600) \div 60, k[2] % 60, k[3])

\* a < b of two datetimes: field by field
DtLess(a, b) ==
    LET x == <<a.year, a.month, a.day, a.hour, a.minute, a.second, a.microsecond>>
        y == <<b.year, b.month, b.day, b.hour, b.minute, b.second, b.microsecond>>
    IN  \E i \in 1..7 : x[i] < y[i] /\ \A j \in 1..(i - 1) : x[j] = y[j]

DtLeq(a, b) == a = b \/ DtLess(a, b)

\* datetime + timedelta (the timedelta may be negative)
DtAdd(dt, td) ==
    LET k   == DtKey(dt)
        us  == k[3] + td.microseconds
        s   == k[2] + td.seconds + (us \div 1000000)
        day == k[1] + td.days + (s \div 86400)
    IN  FromKey(<<day, s % 86400, us % 1000000>>)

\* datetime.date() as the datetime of its midnight
DateOf(dt) == DT(dt.year, dt.month, dt.day, 0, 0, 0, 0)

\* datetime(**date_args): the keys it takes, the three it needs, the ranges
DatetimeKeys == {"year", "month", "day", "hour", "minute", "second", "microsecond"}

ArgOr(args, key, default) == IF key \in DOMAIN args THEN args[key] ELSE default

MakeDatetime(args) ==
    IF ~(DOMAIN args \subseteq DatetimeKeys) \/ ~({"year", "month", "day"} \subseteq DOMAIN args)
    THEN [err |-> "TypeError"]
    ELSE LET dt == DT(args["year"], args["month"], args["day"],
                      ArgOr(args, "hour", 0), ArgOr(args, "minute", 0),
                      ArgOr(args, "second", 0), ArgOr(args, "microsecond", 0))
         IN  IF /\ dt.year \in 1..9999
                /\ dt.month \in 1..12
                /\ dt.day \in 1..DaysInMonth(dt.year, dt.month)
                /\ dt.hour \in 0..23
                /\ dt.minute \in 0..59
                /\ dt.second \in 0..59
                /\ dt.microsecond \in 0..999999
             THEN [err |-> "none", val |-> dt]
             ELSE [err |-> "ValueError"]

(***************************************************************************)
(* Path templates: a string of literal characters and {placeholder} tokens  *)
(***************************************************************************)
L(c) == [k |-> "lit", v |-> c]

P(name) == [k |-> "ph", v |-> name]

RECURSIVE Lits(_)
Lits(s) == IF Len(s) = 0 THEN <<>> ELSE <<L(Head(s))>> \o Lits(Tail(s))

StartNames ==
    {"year", "year2", "month", "day", "doy", "hour", "minute", "second", "millisecond"}

EndNames ==
    {"end_year", "end_year2", "end_month", "end_day", "end_doy", "end_hour",
     "end_minute", "end_second", "end_millisecond"}

\* name[len("end_"):]
Base(name) ==
    CASE name = "end_year" -> "year"
      [] name = "end_year2" -> "year2"
      [] name = "end_month" -> "month"
      [] name = "end_day" -> "day"
      [] name = "end_doy" -> "doy"
      [] name = "end_hour" -> "hour"
      [] name = "end_minute" -> "minute"
      [] name = "end_second" -> "second"
      [] name = "end_millisecond" -> "millisecond"
      [] OTHER -> name

\* prefix + base, for the prefixes "" and "end_"
Prefixed(prefix, base) ==
    IF prefix = "" THEN base
    ELSE IF \E n \in EndNames : Base(n) = base
         THEN CHOOSE n \in EndNames : Base(n) = base
         ELSE "end_" \o base

StartsWith(name, prefix) == prefix = "" \/ name \in EndNames

\* Dataset.placeholder: the regular expression of each placeholder, a group of
\* so many digits; "name" stands for the literal name and captures nothing
PlaceholderKeys == StartNames \cup EndNames \cup {"name"}

PlaceholderWidth(name) ==
    CASE Base(name) = "year" -> 4
      [] Base(name) \in {"doy", "millisecond"} -> 3
      [] OTHER -> 2

\* re.findall("\{(\w+)\}", files)
RECURSIVE FilesPlaceholders(_)
FilesPlaceholders(template) ==
    IF Len(template) = 0 THEN <<>>
    ELSE (IF Head(template).k = "ph" THEN <<Head(template).v>> ELSE <<>>)
         \o FilesPlaceholders(Tail(template))

HasStar(template) == \E i \in 1..Len(template) : template[i] = L("*")

SingleFile(template) == Len(FilesPlaceholders(template)) = 0 /\ ~HasStar(template)

(***************************************************************************)
(* generate_filename                                                        *)
(***************************************************************************)
DayOfYear(dt) == ToOrdinal(dt.year, dt.month, dt.day) - ToOrdinal(dt.year, 1, 1) + 1

FillValue(base, t) ==
    CASE base = "year" -> Str(t.year)
      [] base = "year2" -> LastChars(Str(t.year), 2)
      [] base = "month" -> Fmt(t.month, 2)
      [] base = "day" -> Fmt(t.day, 2)
      [] base = "doy" -> Fmt(DayOfYear(t), 3)
      [] base = "hour" -> Fmt(t.hour, 2)
      [] base = "minute" -> Fmt(t.minute, 2)
      [] base = "second" -> Fmt(t.second, 2)
      [] base = "millisecond" -> Fmt(t.microsecond \div 1000, 3)

RECURSIVE FillTokens(_, _, _, _)
FillTokens(template, start_time, end_time, name) ==
    IF Len(template) = 0 THEN <<>>
    ELSE LET tok == Head(template)
             out == IF tok.k = "lit" THEN <<tok.v>>
                    ELSE IF tok.v = "name" THEN name
                    ELSE IF tok.v \in EndNames THEN FillValue(Base(tok.v), end_time)
                    ELSE FillValue(tok.v, start_time)
         IN  out \o FillTokens(Tail(template), start_time, end_time, name)

UnknownPlaceholder(template) ==
    \E i \in 1..Len(template) :
        template[i].k = "ph" /\ template[i].v \notin PlaceholderKeys

\* a variant of generate_filename that leaves an unknown placeholder out
generate_filename_lenient(template, start_time, end_time, name) ==
    [err |-> "none",
     val |-> FillTokens(SelectSeq(template, LAMBDA tok :
                            tok.k = "lit" \/ tok.v \in PlaceholderKeys),
                        start_time, end_time, name)]

\* template.format(year=..., ..., name=self.name): a KeyError for any other name
generate_filename(template, start_time, end_time, name) ==
    IF UnknownPlaceholder(template) THEN [err |-> "KeyError", val |-> <<>>]
    ELSE [err |-> "none", val |-> FillTokens(template, start_time, end_time, name)]

(***************************************************************************)
(* The regular expression of a template                                     *)
(***************************************************************************)
RChr(c) == [k |-> "chr", v |-> c, n |-> 1]

RAny == [k |-> "any", v |-> ".", n |-> 1]

RLazy == [k |-> "lazy", v |-> ".*?", n |-> 0]

RDigits(w) == [k |-> "dig", v |-> "\\d", n |-> w]

RECURSIVE RegexTokens(_, _)
RegexTokens(template, name) ==
    IF Len(template) = 0 THEN <<>>
    ELSE LET tok == Head(template)
             out == IF tok.k = "ph"
                    THEN (IF tok.v = "name" THEN RegexTokens(Lits(name), name)
                          ELSE <<RDigits(PlaceholderWidth(tok.v))>>)
                    ELSE IF tok.v = "*" THEN <<RLazy>>
                    ELSE IF tok.v = "." THEN <<RAny>>
                    ELSE <<RChr(tok.v)>>
         IN  out \o RegexTokens(Tail(template), name)

\* re.compile(files.format(**Dataset.placeholder).replace("*", ".*?"))
CompileRegex(template, name) ==
    IF UnknownPlaceholder(template) THEN [err |-> "KeyError", val |-> <<>>]
    ELSE [err |-> "none", val |-> RegexTokens(template, name)]

AllDigits(s, j, n) == j + n - 1 <= Len(s) /\ \A i \in j..(j + n - 1) : IsDigit(s[i])

\* The backtracking match of regex[i..] at s[j..]: {} when there is none, else
\* {groups} with the captured groups of the first match in priority order
RECURSIVE MatchFrom(_, _, _, _)
MatchFrom(regex, i, s, j) ==
    IF i > Len(regex) THEN {<<>>}
    ELSE LET r == regex[i] IN
         CASE r.k = "chr" ->
                IF j <= Len(s) /\ s[j] = r.v THEN MatchFrom(regex, i + 1, s, j + 1) ELSE {}
           [] r.k = "any" ->
                IF j <= Len(s) THEN MatchFrom(regex, i + 1, s, j + 1) ELSE {}
           [] r.k = "dig" ->
                IF AllDigits(s, j, r.n)
                THEN {<<SubSeq(s, j, j + r.n - 1)>> \o g :
                         g \in MatchFrom(regex, i + 1, s, j + r.n)}
                ELSE {}
           [] r.k = "lazy" ->
                LET rest == MatchFrom(regex, i + 1, s, j)
                IN  IF rest # {} THEN rest
                    ELSE IF j <= Len(s) THEN MatchFrom(regex, i, s, j + 1)
                    ELSE {}

\* regex.match(path): anchored at the start of the path only
RegexMatch(regex, s) == MatchFrom(regex, 1, s, 1) # {}

\* regex.findall(filename)[0]: the groups of the leftmost match
RECURSIVE SearchFrom(_, _, _)
SearchFrom(regex, s, j) ==
    IF j > Len(s) + 1 THEN {}
    ELSE LET m == MatchFrom(regex, 1, s, j)
         IN  IF m # {} THEN m ELSE SearchFrom(regex, s, j + 1)

NumGroups(regex) == Cardinality({i \in 1..Len(regex) : regex[i].k = "dig"})

\* what values[index] is: findall gives tuples of groups, but plain strings for a
\* regex with one group, and then values[index] is one character of the string
FindallValues(regex, groups) ==
    IF NumGroups(regex) = 1 THEN [i \in 1..Len(groups[1]) |-> <<groups[1][i]>>]
    ELSE groups

(***************************************************************************)
(* Dates from placeholder values                                            *)
(***************************************************************************)
EmptyDict == [key \in {} |-> 0]

\* dict with dict[key] = value
DictSet(dict, key, value) == (key :> value) @@ dict

\* del dict[key]
DictDel(dict, key) == [x \in (DOMAIN dict) \ {key} |-> dict[x]]

Year2Threshold == 65

\* a variant of Year2ToYear that reads every two-digit year as 20xx
Year2ToYear_twenties(value) == 2000 + value

\* if value < 65: year = 2000 + value, else: year = 1900 + value
Year2ToYear(value) == IF value < Year2Threshold THEN 2000 + value ELSE 1900 + value

\* the loop of _create_date_from_placeholders from index i on; exclude is
\* "None" or a prefix
RECURSIVE DateArgsLoop(_, _, _, _, _, _)
DateArgsLoop(placeholders, values, prefix, exclude, i, date_args) ==
    IF i > Len(placeholders) THEN [err |-> "none", val |-> date_args]
    ELSE IF i > Len(values) THEN [err |-> "IndexError", val |-> date_args]
    ELSE LET placeholder == placeholders[i]
             value == IntOf(values[i])
             next ==
                IF placeholder = Prefixed(prefix, "year2")
                THEN DictSet(date_args, "year", Year2ToYear(value))
                ELSE IF placeholder = Prefixed(prefix, "millisecond")
                THEN DictSet(date_args,
                             IF prefix = "" THEN "microsecond" ELSE "end_microsecond",
                             value * 1000)
                ELSE IF /\ (exclude = "None" \/ ~StartsWith(placeholder, exclude))
                        /\ StartsWith(placeholder, prefix)
                THEN DictSet(date_args,
                             IF prefix = "" THEN placeholder ELSE Base(placeholder),
                             value)
                ELSE date_args
         IN  DateArgsLoop(placeholders, values, prefix, exclude, i + 1, next)

InSeq(x, seq) == \E i \in 1..Len(seq) : seq[i] = x

_create_date_from_placeholders(placeholders, values, prefix, exclude, default) ==
    LET looped == DateArgsLoop(placeholders, values, prefix, exclude, 1, default)
        args == looped.val
    IN  IF looped.err # "none" THEN looped
        ELSE IF ~InSeq(Prefixed(prefix, "doy"), placeholders) THEN looped
        ELSE IF "year" \notin DOMAIN args THEN [err |-> "KeyError", val |-> args]
        ELSE IF args["year"] \notin 1..9999 THEN [err |-> "ValueError", val |-> args]
        ELSE LET ord == ToOrdinal(args["year"], 1, 1) + args["doy"] - 1
             IN  IF ord < 1 THEN [err |-> "OverflowError", val |-> args]
                 ELSE LET date == FromKey(<<ord, 0, 0>>)
                      IN  [err |-> "none",
                           val |-> DictDel(DictSet(DictSet(args, "month", date.month),
                                                   "day", date.day), "doy")]

\* the timedelta of the finest unit among the keys, {} for None
_get_time_resolution(date_args) ==
    IF "millisecond" \in DOMAIN date_args THEN {TD(0, 0, 1000)}
    ELSE IF "second" \in DOMAIN date_args THEN {TD(0, 1, 0)}
    ELSE IF "minute" \in DOMAIN date_args THEN {TD(0, 60, 0)}
    ELSE IF "hour" \in DOMAIN date_args THEN {TD(0, 3600, 0)}
    ELSE IF "day" \in DOMAIN date_args THEN {TD(1, 0, 0)}
    ELSE {}

Failed(e) == [err |-> e, val |-> <<>>]

\* retrieve_time_coverage, the branch retrieve_method == "filename":
\* <<start, end>> from the placeholder values of the name
\* if end_date < start_date: end_date += timedelta(days=1)
EnsureLater(start_date, end_date) ==
    [err |-> "none",
     val |-> <<start_date,
               IF DtLess(end_date, start_date) THEN DtAdd(end_date, TD(1, 0, 0))
               ELSE end_date>>]

\* a variant of AddResolution that adds nothing
AddResolution_nothing(start_date, end_date, resolution) ==
    EnsureLater(start_date, end_date)

\* end_date += resolution, a TypeError when the resolution is None
AddResolution(start_date, end_date, resolution) ==
    IF resolution = {} THEN Failed("TypeError")
    ELSE EnsureLater(start_date, DtAdd(end_date, CHOOSE td \in resolution : TRUE))

\* the two calls of datetime(**args), then the extension and the correction
CoverageOfDates(continuous, start_date_args, start_date, end_date) ==
    IF start_date.err # "none" THEN Failed(start_date.err)
    ELSE IF end_date.err # "none" THEN Failed(end_date.err)
    ELSE IF continuous /\ start_date.val = end_date.val
    THEN AddResolution(start_date.val, end_date.val, _get_time_resolution(start_date_args))
    ELSE EnsureLater(start_date.val, end_date.val)

CoverageOfEndArgs(continuous, start_date_args, end_date_args) ==
    IF end_date_args.err # "none" THEN Failed(end_date_args.err)
    ELSE CoverageOfDates(continuous, start_date_args,
                         MakeDatetime(start_date_args), MakeDatetime(end_date_args.val))

CoverageOfStartArgs(continuous, placeholders, values, start_date_args) ==
    IF start_date_args.err # "none" THEN Failed(start_date_args.err)
    ELSE CoverageOfEndArgs(continuous, start_date_args.val,
             _create_date_from_placeholders(placeholders, values, "end_", "None",
                                            start_date_args.val))

\* values = regex.findall(filename)[0], a ValueError when nothing matches
CoverageOfMatch(continuous, placeholders, regex, found) ==
    IF found = {} THEN Failed("ValueError")
    ELSE CoverageOfStartArgs(continuous, placeholders,
             FindallValues(regex, CHOOSE g \in found : TRUE),
             _create_date_from_placeholders(placeholders,
                 FindallValues(regex, CHOOSE g \in found : TRUE), "", "end_", EmptyDict))

CoverageOfRegex(template, continuous, filename, compiled) ==
    IF compiled.err # "none" THEN Failed(compiled.err)
    ELSE CoverageOfMatch(continuous, FilesPlaceholders(template), compiled.val,
                         SearchFrom(compiled.val, filename, 1))

\* retrieve_time_coverage with the method "filename": the coverage parsed
\* from the name of the file
ParseFilename(template, name, continuous, filename) ==
    IF SingleFile(template) THEN Failed("ValueError")
    ELSE CoverageOfRegex(template, continuous, filename, CompileRegex(template, name))


(***************************************************************************)
(* The file system: fs lists the regular files in the order in which a      *)
(* directory listing finds them; the directories are their ancestors        *)
(***************************************************************************)
Range(seq) == {seq[i] : i \in 1..Len(seq)}

RECURSIVE StripSlash(_)
StripSlash(path) ==
    IF Len(path) > 1 /\ path[Len(path)] = "/"
    THEN StripSlash(SubSeq(path, 1, Len(path) - 1))
    ELSE path

\* os.path.isfile
IsFile(fs, path) == InSeq(path, fs)

\* os.path.isdir
IsDir(fs, path) ==
    /\ Len(path) > 0
    /\ LET dir == StripSlash(path)
       IN  \E i \in 1..Len(fs) : \E k \in 1..Len(fs[i]) :
              /\ fs[i][k] = "/"
              /\ dir = (IF k = 1 THEN <<"/">> ELSE SubSeq(fs[i], 1, k - 1))

NumSlashes(path) == Cardinality({i \in 1..Len(path) : path[i] = "/"})

\* the ancestor (or the file itself) with n slashes, {} when there is none
Ancestor(file, n) ==
    LET slashes == {i \in 1..Len(file) : file[i] = "/"}
    IN  IF Cardinality(slashes) < n THEN {}
        ELSE IF Cardinality(slashes) = n THEN {file}
        ELSE LET cut == CHOOSE i \in slashes :
                            Cardinality({j \in slashes : j < i}) = n
             IN  IF cut = 1 THEN {} ELSE {SubSeq(file, 1, cut - 1)}

\* fnmatch of one path against a pattern, component by component: "*" stands
\* for any characters of one component
RECURSIVE WildMatch(_, _, _, _)
WildMatch(pattern, i, path, j) ==
    IF i > Len(pattern) THEN j > Len(path)
    ELSE IF pattern[i] = "*"
    THEN \/ WildMatch(pattern, i + 1, path, j)
         \/ j <= Len(path) /\ path[j] # "/" /\ WildMatch(pattern, i, path, j + 1)
    ELSE j <= Len(path) /\ path[j] = pattern[i] /\ WildMatch(pattern, i + 1, path, j + 1)

\* glob.iglob(pattern): the existing files and directories that match, in the
\* order of the listing
RECURSIVE GlobFrom(_, _, _, _)
GlobFrom(fs, pattern, i, found) ==
    IF i > Len(fs) THEN found
    ELSE LET entry == {e \in Ancestor(fs[i], NumSlashes(pattern)) :
                          ~InSeq(e, found) /\ WildMatch(pattern, 1, e, 1)}
         IN  GlobFrom(fs, pattern, i + 1,
                      IF entry = {} THEN found
                      ELSE Append(found, CHOOSE e \in entry : TRUE))

Glob(fs, pattern) == GlobFrom(fs, pattern, 1, <<>>)

\* os.path.join(path, "*")
JoinStar(path) ==
    IF path[Len(path)] = "/" THEN path \o <<"*">> ELSE path \o <<"/", "*">>

RECURSIVE _get_all_files(_, _, _)
RECURSIVE AllFilesOf(_, _, _, _)
\* the files under each of sub_paths[i..], one after the other
AllFilesOf(fs, sub_paths, i, regex) ==
    IF i > Len(sub_paths) THEN <<>>
    ELSE _get_all_files(fs, sub_paths[i], regex) \o AllFilesOf(fs, sub_paths, i + 1, regex)

_get_all_files(fs, path, regex) ==
    IF IsFile(fs, path) THEN (IF RegexMatch(regex, path) THEN <<path>> ELSE <<>>)
    ELSE LET new_path == IF IsDir(fs, path) THEN JoinStar(path) ELSE path \o <<"*">>
         IN  AllFilesOf(fs, Glob(fs, new_path), 1, regex)

IsDayToken(tok) == tok.k = "ph" /\ tok.v \in {"day", "doy"}

\* path_name[:min(day_indices)]: the template up to its first {day} or {doy};
\* {} when it has neither, and min() of the empty list raises
DayTemplate(template) ==
    LET days == {i \in 1..Len(template) : IsDayToken(template[i])}
    IN  IF days = {} THEN {}
        ELSE {SubSeq(template, 1, CHOOSE i \in days : \A j \in days : i <= j)}

_get_files_path(fs, template, name, date) ==
    IF DayTemplate(template) = {} THEN Failed("ValueError")
    ELSE LET daily == generate_filename(CHOOSE t \in DayTemplate(template) : TRUE,
                                        date, date, name)
         IN  IF daily.err # "none" THEN daily
             ELSE IF IsDir(fs, daily.val)
                  THEN [err |-> "none", val |-> daily.val \o <<"/">>]
                  ELSE daily

\* pd.date_range(first, end): the midnights from first on that are not after end
RECURSIVE DateRange(_, _)
DateRange(first, end) ==
    IF DtLess(end, first) THEN <<>>
    ELSE <<first>> \o DateRange(DtAdd(first, TD(1, 0, 0)), end)

\* the dates find_files walks over
SearchDates(start, end) ==
    LET dates == DateRange(DtAdd(DateOf(start), TD(-1, 0, 0)), end)
    IN  IF Len(dates) > 1 /\ dates[Len(dates)] = end
        THEN SubSeq(dates, 1, Len(dates) - 1)
        ELSE dates

(***************************************************************************)
(* A Dataset object is the record self = [files, name, continuous,          *)
(* time_coverage] with its cache; time_coverage is [mode, times] with mode  *)
(* "filename", "content" or "explicit" (a pair of datetimes)                *)
(***************************************************************************)
Count(counts, path) == IF path \in DOMAIN counts THEN counts[path] ELSE 0

Bump(counts, path) == DictSet(counts, path, Count(counts, path) + 1)

\* IntervalTree.overlaps: half-open intervals, touching ends do not overlap
Overlaps(a, b) == DtLess(a[1], b[2]) /\ DtLess(b[1], a[2])

\* the digits of a path, in order
RECURSIVE DigitsOf(_)
DigitsOf(path) ==
    IF Len(path) = 0 THEN <<>>
    ELSE (IF IsDigit(Head(path)) THEN <<Head(path)>> ELSE <<>>) \o DigitsOf(Tail(path))

\* handler.get_info(file)["times"]: the content of a file of the model covers
\* the day its first eight digits name, from 06:00 to 06:00 of the next day
get_info(fs, filename) ==
    IF ~IsFile(fs, filename) THEN Failed("FileNotFoundError")
    ELSE LET digits == DigitsOf(filename) IN
    IF Len(digits) < 8 THEN Failed("ValueError")
    ELSE LET day == MakeDatetime(
                 [year |-> IntOf(SubSeq(digits, 1, 4)),
                  month |-> IntOf(SubSeq(digits, 5, 6)),
                  day |-> IntOf(SubSeq(digits, 7, 8)),
                  hour |-> 6])
         IN  IF day.err # "none" THEN Failed(day.err)
             ELSE [err |-> "none", val |-> <<day.val, DtAdd(day.val, TD(1, 0, 0))>>]

\* a variant of CacheCoverage that returns the coverage and stores nothing
CacheCoverage_forgetful(cache, counts, filename, time_coverage) ==
    IF time_coverage.err # "none"
    THEN [err |-> time_coverage.err, val |-> <<>>, hit |-> FALSE,
          cache |-> cache, counts |-> Bump(counts, filename)]
    ELSE [err |-> "none", val |-> time_coverage.val, hit |-> FALSE,
          cache |-> cache, counts |-> Bump(counts, filename)]

\* a variant of CacheCoverage that marks a path whose parse raised
CacheCoverage_marking(cache, counts, filename, time_coverage) ==
    IF time_coverage.err # "none"
    THEN [err |-> time_coverage.err, val |-> <<>>, hit |-> FALSE,
          cache |-> DictSet(cache, filename, <<>>), counts |-> Bump(counts, filename)]
    ELSE [err |-> "none", val |-> time_coverage.val, hit |-> FALSE,
          cache |-> DictSet(cache, filename, time_coverage.val),
          counts |-> Bump(counts, filename)]

\* self.time_coverages_cache[filename] = time_coverage, which is not reached
\* when the parse or the handler raises
CacheCoverage(cache, counts, filename, time_coverage) ==
    IF time_coverage.err # "none"
    THEN [err |-> time_coverage.err, val |-> <<>>, hit |-> FALSE,
          cache |-> cache, counts |-> Bump(counts, filename)]
    ELSE [err |-> "none", val |-> time_coverage.val, hit |-> FALSE,
          cache |-> DictSet(cache, filename, time_coverage.val),
          counts |-> Bump(counts, filename)]

\* a variant of retrieve_time_coverage that also stores the explicit pair
retrieve_time_coverage_storing(self, cache, counts, fs, filename) ==
    IF filename \in DOMAIN cache
    THEN [err |-> "none", val |-> cache[filename], hit |-> TRUE,
          cache |-> cache, counts |-> counts]
    ELSE IF self.time_coverage.mode = "explicit"
    THEN [err |-> "none", val |-> self.time_coverage.times, hit |-> FALSE,
          cache |-> DictSet(cache, filename, self.time_coverage.times),
          counts |-> counts]
    ELSE IF self.time_coverage.mode = "filename" /\ SingleFile(self.files)
    THEN [err |-> "ValueError", val |-> <<>>, hit |-> FALSE,
          cache |-> cache, counts |-> counts]
    ELSE CacheCoverage(cache, counts, filename,
             IF self.time_coverage.mode = "filename"
             THEN ParseFilename(self.files, self.placeholder_name, self.continuous, filename)
             ELSE get_info(fs, filename))

\* retrieve_time_coverage(filename): the result, the cache and the count of
\* the expensive steps (the parse of a name, the handler's get_info) after it
retrieve_time_coverage(self, cache, counts, fs, filename) ==
    IF filename \in DOMAIN cache
    THEN [err |-> "none", val |-> cache[filename], hit |-> TRUE,
          cache |-> cache, counts |-> counts]
    ELSE IF self.time_coverage.mode = "explicit"
    THEN [err |-> "none", val |-> self.time_coverage.times, hit |-> FALSE,
          cache |-> cache, counts |-> counts]
    ELSE IF self.time_coverage.mode = "filename" /\ SingleFile(self.files)
    THEN [err |-> "ValueError", val |-> <<>>, hit |-> FALSE,
          cache |-> cache, counts |-> counts]
    ELSE CacheCoverage(cache, counts, filename,
             IF self.time_coverage.mode = "filename"
             THEN ParseFilename(self.files, self.placeholder_name, self.continuous, filename)
             ELSE get_info(fs, filename))

\* retrieve_time_coverage(filename, retrieve_method) with a method given:
\* the time_coverage of the dataset is not looked at
retrieve_time_coverage_with(self, cache, counts, fs, filename, retrieve_method) ==
    IF filename \in DOMAIN cache
    THEN [err |-> "none", val |-> cache[filename], hit |-> TRUE,
          cache |-> cache, counts |-> counts]
    ELSE IF retrieve_method = "filename" /\ SingleFile(self.files)
    THEN [err |-> "ValueError", val |-> <<>>, hit |-> FALSE,
          cache |-> cache, counts |-> counts]
    ELSE CacheCoverage(cache, counts, filename,
             IF retrieve_method = "filename"
             THEN ParseFilename(self.files, self.placeholder_name, self.continuous, filename)
             ELSE get_info(fs, filename))

\* a variant of _check_file with closed intervals, where touching ends overlap
_check_file_closed(file_start, file_end, start, end) ==
    ~DtLess(end, file_start) /\ ~DtLess(file_end, start)

\* _check_file: whether the coverage of the file overlaps [start, end)
_check_file(file_start, file_end, start, end) ==
    Overlaps(<<file_start, file_end>>, <<start, end>>)

\* one candidate of the generator found_files: _check_file resolves it, and
\* a passing file is paired with its coverage
FoundFile(st, filename, coverage, start, end) ==
    IF coverage.err # "none"
    THEN [found |-> st.found, err |-> coverage.err,
          cache |-> coverage.cache, counts |-> coverage.counts]
    ELSE [found |-> IF _check_file(coverage.val[1], coverage.val[2], start, end)
                    THEN Append(st.found, <<filename, coverage.val>>)
                    ELSE st.found,
          err |-> "none", cache |-> coverage.cache, counts |-> coverage.counts]

\* the generator found_files run to its end or to its first exception:
\* st = [found, err, cache, counts]
RECURSIVE WalkFiles(_, _, _, _, _, _, _)
WalkFiles(self, fs, filenames, j, st, start, end) ==
    IF j > Len(filenames) \/ st.err # "none" THEN st
    ELSE WalkFiles(self, fs, filenames, j + 1,
             FoundFile(st, filenames[j],
                 retrieve_time_coverage(self, st.cache, st.counts, fs, filenames[j]),
                 start, end),
             start, end)

\* the files of one search path, a failing path ends the walk
WalkPath(self, fs, regex, path, st, start, end) ==
    IF path.err # "none"
    THEN [found |-> st.found, err |-> path.err, cache |-> st.cache, counts |-> st.counts]
    ELSE WalkFiles(self, fs, _get_all_files(fs, path.val, regex), 1, st, start, end)

RECURSIVE WalkDates(_, _, _, _, _, _, _, _)
WalkDates(self, fs, regex, dates, i, st, start, end) ==
    IF i > Len(dates) \/ st.err # "none" THEN st
    ELSE WalkDates(self, fs, regex, dates, i + 1,
             WalkPath(self, fs, regex,
                      _get_files_path(fs, self.files, self.name, dates[i]),
                      st, start, end),
             start, end)

\* a variant of InsertByStart that puts x before the files of the same start
InsertByStart_first(sorted, x) ==
    SelectSeq(sorted, LAMBDA y : DtLess(y[2][1], x[2][1])) \o <<x>>
    \o SelectSeq(sorted, LAMBDA y : ~DtLess(y[2][1], x[2][1]))

\* sorted(found_files, key=lambda x: x[1][0]): a stable sort by start, every
\* file put behind the files of the same start that were found before it
RECURSIVE InsertByStart(_, _)
InsertByStart(sorted, x) ==
    IF Len(sorted) = 0 THEN <<x>>
    ELSE IF DtLess(x[2][1], Head(sorted)[2][1]) THEN <<x>> \o sorted
    ELSE <<Head(sorted)>> \o InsertByStart(Tail(sorted), x)

RECURSIVE SortedFrom(_, _, _)
SortedFrom(found, i, sorted) ==
    IF i > Len(found) THEN sorted
    ELSE SortedFrom(found, i + 1, InsertByStart(sorted, found[i]))

\* a variant of SortByStart that leaves the files in the order found
SortByStart_unsorted(found) == found

SortByStart(found) == SortedFrom(found, 1, <<>>)

\* the path a template without placeholders is
PathOf(template) == [i \in 1..Len(template) |-> template[i].v]

\* the special case of a dataset of one file, given its coverage
YieldSingle(self, coverage, start, end, no_files_error) ==
    IF coverage.err # "none"
    THEN [err |-> coverage.err, yielded |-> <<>>,
          cache |-> coverage.cache, counts |-> coverage.counts]
    ELSE IF Overlaps(coverage.val, <<start, end>>)
    THEN [err |-> "none", yielded |-> <<<<PathOf(self.files), coverage.val>>>>,
          cache |-> coverage.cache, counts |-> coverage.counts]
    ELSE [err |-> IF no_files_error THEN "NoFilesError" ELSE "none",
          yielded |-> <<>>, cache |-> coverage.cache, counts |-> coverage.counts]

\* a variant of YieldFound that never raises NoFilesError
YieldFound_silent(st, sort, no_files_error) ==
    [err |-> st.err,
     yielded |-> IF st.err # "none" /\ sort THEN <<>>
                 ELSE IF sort THEN SortByStart(st.found) ELSE st.found,
     cache |-> st.cache, counts |-> st.counts]

\* what is yielded of found_files: sorted by start or in the order found, and
\* a NoFilesError when nothing was found and the caller asked for it
YieldFound(st, sort, no_files_error) ==
    IF Len(st.found) = 0 /\ st.err = "none"
    THEN [err |-> IF no_files_error THEN "NoFilesError" ELSE "none",
          yielded |-> <<>>, cache |-> st.cache, counts |-> st.counts]
    ELSE IF sort
    THEN [err |-> st.err,
          yielded |-> IF st.err = "none" THEN SortByStart(st.found) ELSE <<>>,
          cache |-> st.cache, counts |-> st.counts]
    ELSE [err |-> st.err, yielded |-> st.found,
          cache |-> st.cache, counts |-> st.counts]

\* the search with the compiled regex of the template
FindWithRegex(self, cache, counts, fs, start, end, sort, no_files_error, compiled) ==
    IF compiled.err # "none"
    THEN [err |-> compiled.err, yielded |-> <<>>, cache |-> cache, counts |-> counts]
    ELSE YieldFound(
             WalkDates(self, fs, compiled.val, SearchDates(start, end), 1,
                 [found |-> <<>>, err |-> "none", cache |-> cache, counts |-> counts],
                 start, end),
             sort, no_files_error)

\* find_files iterated to its end: yielded is what it yields before it ends
\* or raises err
find_files(self, cache, counts, fs, start, end, sort, no_files_error) ==
    IF SingleFile(self.files)
    THEN IF ~IsFile(fs, PathOf(self.files))
         THEN [err |-> "ValueError", yielded |-> <<>>, cache |-> cache, counts |-> counts]
         ELSE YieldSingle(self,
                  retrieve_time_coverage(self, cache, counts, fs, PathOf(self.files)),
                  start, end, no_files_error)
    ELSE FindWithRegex(self, cache, counts, fs, start, end, sort, no_files_error,
                       CompileRegex(self.files, self.placeholder_name))

(***************************************************************************)
(* find_overlapping_files                                                   *)
(***************************************************************************)
\* int(dt.timestamp()): whole seconds; only differences and the order of
\* timestamps matter, so they are counted from the first day of 2000
Timestamp(dt) ==
    (ToOrdinal(dt.year, dt.month, dt.day) - ToOrdinal(2000, 1, 1)) * 86400
    + dt.hour * 3600 + dt.minute * 60 + dt.second

SecondsPair(times) == <<Timestamp(times[1]), Timestamp(times[2])>>

\* IntervalTree(intervals).query(queries)[i]: the indices of the stored
\* intervals that overlap queries[i], where touching ends do not overlap
TreeQuery(intervals, query) ==
    {oi \in 1..Len(intervals) :
        intervals[oi][1] < query[2] /\ query[1] < intervals[oi][2]}

\* sorted(indices)
RECURSIVE SortedIndices(_)
SortedIndices(indices) ==
    IF indices = {} THEN <<>>
    ELSE LET least == CHOOSE i \in indices : \A j \in indices : i <= j
         IN  <<least>> \o SortedIndices(indices \ {least})

\* a variant of OverlappingFiles that pairs every primary file with every
\* secondary file
OverlappingFiles_all(primary_files, secondary_files, gap) ==
    [i \in 1..Len(primary_files) |->
        <<primary_files[i][1],
          [k \in 1..Len(secondary_files) |-> secondary_files[k][1]]>>]

\* tree.query(primary_times) over the widened times of the secondary files:
\* one pair per primary file
OverlappingFiles(primary_files, secondary_files, gap) ==
    LET primary_times ==
            [i \in 1..Len(primary_files) |-> SecondsPair(primary_files[i][2])]
        secondary_times ==
            [i \in 1..Len(secondary_files) |->
                <<Timestamp(secondary_files[i][2][1]) - gap,
                  Timestamp(secondary_files[i][2][2]) + gap>>]
    IN  [i \in 1..Len(primary_files) |->
            <<primary_files[i][1],
              [k \in 1..Cardinality(TreeQuery(secondary_times, primary_times[i])) |->
                  secondary_files[
                      SortedIndices(TreeQuery(secondary_times, primary_times[i]))[k]][1]]>>]

\* the files of the other dataset; an exception of its find_files ends the call
MatchSecondary(primary, secondary, gap) ==
    IF secondary.err # "none"
    THEN [err |-> secondary.err, yielded |-> <<>>,
          cache |-> primary.cache, counts |-> primary.counts,
          other_cache |-> secondary.cache, other_counts |-> secondary.counts]
    ELSE [err |-> "none",
          yielded |-> OverlappingFiles(primary.yielded, secondary.yielded, gap),
          cache |-> primary.cache, counts |-> primary.counts,
          other_cache |-> secondary.cache, other_counts |-> secondary.counts]

\* the files of this dataset; an exception of its find_files ends the call
MatchPrimary(other, other_cache, other_counts, fs, start, end, gap, primary) ==
    IF primary.err # "none"
    THEN [err |-> primary.err, yielded |-> <<>>,
          cache |-> primary.cache, counts |-> primary.counts,
          other_cache |-> other_cache, other_counts |-> other_counts]
    ELSE MatchSecondary(primary,
             find_files(other, other_cache, other_counts, fs, start, end, TRUE, TRUE),
             gap)

\* the period widened by max_interval on both sides
Widened(start, end, max_interval) ==
    IF max_interval = {} THEN <<start, end, 0>>
    ELSE <<DtAdd(start, TD(0, 0 - (CHOOSE seconds \in max_interval : TRUE), 0)),
           DtAdd(end, TD(0, CHOOSE seconds \in max_interval : TRUE, 0)),
           CHOOSE seconds \in max_interval : TRUE>>

FindInPeriod(self, other, cache, counts, other_cache, other_counts, fs, period) ==
    MatchPrimary(other, other_cache, other_counts, fs, period[1], period[2], period[3],
        find_files(self, cache, counts, fs, period[1], period[2], TRUE, TRUE))

\* max_interval is {} for None, else {seconds}
find_overlapping_files(self, other, cache, counts, other_cache, other_counts, fs, start, end, max_interval) ==
    FindInPeriod(self, other, cache, counts, other_cache, other_counts, fs,
                 Widened(start, end, max_interval))

(***************************************************************************)
(* find_file                                                                *)
(***************************************************************************)
\* os.path.exists
Exists(fs, path) == IsFile(fs, path) \/ IsDir(fs, path)

\* path.rsplit("/", 1)[0]: the path before its last slash, the path itself
\* when it has no slash
RSplit(path) ==
    LET slashes == {i \in 1..Len(path) : path[i] = "/"}
    IN  IF slashes = {} THEN path
        ELSE SubSeq(path, 1, (CHOOSE i \in slashes : \A j \in slashes : j <= i) - 1)

\* IntervalTree.contains: the point lies in the half-open interval
Contains(interval, point) == DtLeq(interval[1], point) /\ DtLess(point, interval[2])

\* abs(a - b) of two datetimes as <<days, seconds, microseconds>>
TdAbs(a, b) ==
    LET x  == IF DtLess(a, b) THEN DtKey(b) ELSE DtKey(a)
        y  == IF DtLess(a, b) THEN DtKey(a) ELSE DtKey(b)
        us == x[3] - y[3]
        sc == x[2] - y[2] - (IF us < 0 THEN 1 ELSE 0)
    IN  <<x[1] - y[1] - (IF sc < 0 THEN 1 ELSE 0),
          IF sc < 0 THEN sc + 86400 ELSE sc,
          IF us < 0 THEN us + 1000000 ELSE us>>

TdLess(x, y) == \E i \in 1..3 : x[i] < y[i] /\ \A j \in 1..(i - 1) : x[j] = y[j]

\* np.min(np.abs(times - timestamp), axis=1) of one file
Distance(interval, timestamp) ==
    LET to_start == TdAbs(interval[1], timestamp)
        to_end   == TdAbs(interval[2], timestamp)
    IN  IF TdLess(to_end, to_start) THEN to_end ELSE to_start

\* np.argmin: the first index of the least distance
ArgMin(times, timestamp) ==
    CHOOSE i \in 1..Len(times) :
        \A j \in 1..Len(times) :
            /\ ~TdLess(Distance(times[j], timestamp), Distance(times[i], timestamp))
            /\ j < i => TdLess(Distance(times[i], timestamp), Distance(times[j], timestamp))

\* the end of find_file: None without files, else the first file that
\* contains the timestamp, else the closest one
SelectFile(files, times, timestamp) ==
    LET covering == {i \in 1..Len(times) : Contains(times[i], timestamp)}
    IN  IF Len(files) = 0 THEN {}
        ELSE IF covering # {} THEN {files[CHOOSE i \in covering : \A j \in covering : i <= j]}
        ELSE {files[ArgMin(times, timestamp)]}

\* times = [self.retrieve_time_coverage(file) for file in files], from the
\* i-th file on; st holds the times so far, the cache and the counts
NextTime(st, coverage) ==
    [err |-> coverage.err,
     times |-> IF coverage.err = "none" THEN Append(st.times, coverage.val) ELSE st.times,
     cache |-> coverage.cache, counts |-> coverage.counts]

RECURSIVE RetrieveAll(_, _, _, _, _)
RetrieveAll(self, fs, files, i, st) ==
    IF i > Len(files) \/ st.err # "none" THEN st
    ELSE RetrieveAll(self, fs, files, i + 1,
             NextTime(st, retrieve_time_coverage(self, st.cache, st.counts, fs, files[i])))

\* find_file up to its loop: the position "done" with the result, or "test"
\* with the generated path
FindFileGenerated(fs, timestamp, path) ==
    IF path.err # "none"
    THEN [pc |-> "done", err |-> path.err, val |-> {}, timestamp |-> timestamp,
          path |-> <<>>, files |-> <<>>, times |-> <<>>]
    ELSE IF Exists(fs, path.val)
    THEN [pc |-> "done", err |-> "none", val |-> {path.val}, timestamp |-> timestamp,
          path |-> path.val, files |-> <<>>, times |-> <<>>]
    ELSE [pc |-> "test", err |-> "none", val |-> {}, timestamp |-> timestamp,
          path |-> path.val, files |-> <<>>, times |-> <<>>]

find_file(self, fs, timestamp) ==
    IF SingleFile(self.files)
    THEN [pc |-> "done",
          err |-> IF IsFile(fs, PathOf(self.files)) THEN "none" ELSE "ValueError",
          val |-> IF IsFile(fs, PathOf(self.files)) THEN {PathOf(self.files)} ELSE {},
          timestamp |-> timestamp, path |-> <<>>, files |-> <<>>, times |-> <<>>]
    ELSE FindFileGenerated(fs, timestamp,
             generate_filename(self.files, timestamp, timestamp, self.name))

\* while not files and path: the body is entered, or the loop is left and the
\* file is selected
find_file_test(call) ==
    IF Len(call.files) = 0 /\ Len(call.path) > 0
    THEN [call EXCEPT !.pc = "body"]
    ELSE [call EXCEPT !.pc = "done",
                      !.val = SelectFile(call.files, call.times, call.timestamp)]

\* the body of the loop, given the files under the shortened path and their
\* times
FindFileListed(call, path, files, st) ==
    IF st.err # "none"
    THEN [call EXCEPT !.pc = "done", !.err = st.err, !.path = path, !.files = files]
    ELSE [call EXCEPT !.pc = "test", !.path = path, !.files = files, !.times = st.times]

(***************************************************************************)
(* map and map_content                                                      *)
(***************************************************************************)
\* chunksize=10 of pool.imap
ChunkSize == 10

\* the function of the caller, called in a worker process on the worker's
\* copy of the dataset: "name" returns a value naming the file, "resolve"
\* also asks the copy for the coverage of WorkerPath, and "boom<h>" raises
\* at the file of hour h
WorkerPath(self, time_coverage) ==
    FillTokens(self.files, [time_coverage[1] EXCEPT !.day = 13],
               [time_coverage[1] EXCEPT !.day = 13], self.name)

BoomHour(func) == IF func = "boom4" THEN 4 ELSE IF func = "boom10" THEN 10 ELSE 0 - 1

UserFunction(func, dataset, fs, filename, time_coverage) ==
    IF time_coverage[1].hour = BoomHour(func)
    THEN [err |-> "RuntimeError", val |-> <<>>, dataset |-> dataset]
    ELSE IF func = "resolve"
    THEN LET r == retrieve_time_coverage(dataset.self, dataset.cache, dataset.counts,
                                         fs, WorkerPath(dataset.self, time_coverage))
         IN  [err |-> "none", val |-> <<"value", filename>>,
              dataset |-> [dataset EXCEPT !.cache = r.cache, !.counts = r.counts]]
    ELSE [err |-> "none", val |-> <<"value", filename>>, dataset |-> dataset]

\* one task of map: the function on (dataset, filename, time_coverage)
_call_function_with_file_info(dataset, fs, file_info, func, return_file_info) ==
    LET r == UserFunction(func, dataset, fs, file_info[1], file_info[2])
    IN  [err |-> r.err,
         val |-> IF r.err # "none" THEN <<>>
                 ELSE IF return_file_info THEN <<file_info[1], file_info[2], r.val>>
                 ELSE r.val,
         dataset |-> r.dataset, fs |-> fs]

\* dataset.read(filename): the content of the file as the handler reads it
read(fs, filename) ==
    IF IsFile(fs, filename) THEN [err |-> "none", val |-> <<"data", filename>>]
    ELSE [err |-> "FileNotFoundError", val |-> <<>>]

\* output[start:end] = value: the file the output dataset names for the
\* coverage is written
setitem(output, fs, time_coverage) ==
    LET name == generate_filename(output.files, time_coverage[1], time_coverage[2],
                                  output.name)
    IN  IF name.err # "none" THEN [err |-> name.err, fs |-> fs]
        ELSE IF IsFile(fs, name.val) THEN [err |-> "none", fs |-> fs]
        ELSE [err |-> "none", fs |-> Append(fs, name.val)]

\* one task of map_content: the function on the content of the file; output
\* is <<>> for None and <<dataset>> else
_call_function_with_file_content(dataset, fs, file_info, func, output, return_file_info) ==
    LET data == read(fs, file_info[1])
        r == UserFunction(func, dataset, fs, file_info[1], file_info[2])
        written == IF output = <<>> THEN [err |-> "none", fs |-> fs]
                   ELSE setitem(output[1], fs, file_info[2])
    IN  IF data.err # "none"
        THEN [err |-> data.err, val |-> <<>>, dataset |-> dataset, fs |-> fs]
        ELSE IF r.err # "none"
        THEN [err |-> r.err, val |-> <<>>, dataset |-> dataset, fs |-> fs]
        ELSE IF written.err # "none"
        THEN [err |-> written.err, val |-> <<>>, dataset |-> dataset, fs |-> fs]
        ELSE [err |-> "none",
              val |-> IF output = <<>>
                      THEN IF return_file_info
                           THEN <<file_info[1], file_info[2], r.val>>
                           ELSE r.val
                      ELSE file_info[1],
              dataset |-> dataset, fs |-> written.fs]

\* the tasks of imap: the arguments in their order in chunks of chunksize,
\* each chunk with the copy of the dataset that is sent along with it
RECURSIVE Chunks(_, _, _)
Chunks(file_infos, chunksize, dataset) ==
    IF file_infos = <<>> THEN <<>>
    ELSE LET n == IF Len(file_infos) < chunksize THEN Len(file_infos) ELSE chunksize
         IN  <<[files |-> SubSeq(file_infos, 1, n), next |-> 1, out |-> <<>>,
                err |-> "none", dataset |-> dataset]>>
             \o Chunks(SubSeq(file_infos, n + 1, Len(file_infos)), chunksize, dataset)

\* a variant of ChunkAfter in which a raising task is skipped and the chunk
\* goes on
ChunkAfter_tolerant(chunk, result) ==
    IF result.err # "none"
    THEN [chunk EXCEPT !.next = @ + 1, !.dataset = result.dataset]
    ELSE [chunk EXCEPT !.next = @ + 1, !.out = Append(@, result.val),
                       !.dataset = result.dataset]

\* a chunk after its next task returned result: a raising task ends the chunk
\* and drops its items
ChunkAfter(chunk, result) ==
    IF result.err # "none"
    THEN [chunk EXCEPT !.err = result.err, !.out = <<>>, !.dataset = result.dataset]
    ELSE [chunk EXCEPT !.next = @ + 1, !.out = Append(@, result.val),
                       !.dataset = result.dataset]

\* a variant of TaskDone in which the worker writes into the cache of the
\* calling process
TaskDone_shared(cache, chunk, result) ==
    [cache |-> ChunkAfter(chunk, result).dataset.cache @@ cache,
     chunk |-> ChunkAfter(chunk, result)]

\* the processes after a task: the worker holds its own copy of the dataset,
\* the cache of the calling process is not touched
TaskDone(cache, chunk, result) ==
    [cache |-> cache, chunk |-> ChunkAfter(chunk, result)]

Finished(chunk) == chunk.err = "none" /\ chunk.next > Len(chunk.files)

\* the items of the chunks from the k-th on, in the order of the tasks
RECURSIVE Items(_, _)
Items(chunks, k) ==
    IF k > Len(chunks) THEN <<>> ELSE chunks[k].out \o Items(chunks, k + 1)

\* a variant of Collect that leaves out the chunks whose task raised
Collect_skipping(chunks, iter_err, no_files_error) ==
    LET kept == SelectSeq(chunks, LAMBDA c : c.err = "none")
    IN  IF Items(kept, 1) = <<>> /\ no_files_error
        THEN [err |-> "NoFilesError", val |-> <<>>]
        ELSE [err |-> "none", val |-> Items(kept, 1)]

\* results = list(pool.imap(...)) and the lines after it: the items in the
\* order of the tasks, or the exception of the first chunk that has one, or
\* the exception of the generator of the tasks
Collect(chunks, iter_err, no_files_error) ==
    IF \E k \in 1..Len(chunks) : chunks[k].err # "none"
    THEN [err |-> chunks[CHOOSE k \in 1..Len(chunks) :
                             /\ chunks[k].err # "none"
                             /\ \A j \in 1..(k - 1) : chunks[j].err = "none"].err,
          val |-> <<>>]
    ELSE IF iter_err # "none" THEN [err |-> iter_err, val |-> <<>>]
    ELSE IF Items(chunks, 1) = <<>> /\ no_files_error
    THEN [err |-> "NoFilesError", val |-> <<>>]
    ELSE [err |-> "none", val |-> Items(chunks, 1)]

\* whether list(pool.imap(...)) has ended: every chunk up to the first with
\* an exception has been worked off
Collectable(chunks) ==
    \/ \A k \in 1..Len(chunks) : Finished(chunks[k])
    \/ \E k \in 1..Len(chunks) :
           chunks[k].err # "none" /\ \A j \in 1..(k - 1) : Finished(chunks[j])

\* the tasks of a generator that yielded file_infos and then ended with
\* iter_err: the files of a chunk that was not full when the generator raised
\* are lost with it
Dispatched(file_infos, iter_err, chunksize) ==
    IF iter_err = "none" THEN file_infos
    ELSE SubSeq(file_infos, 1, (Len(file_infos) \div chunksize) * chunksize)

\* the start of map and of map_content: the generator of the tasks iterates
\* find_files(start, end, sort=False) in the calling process, and the pool
\* sends the tasks in chunks to the workers
Dispatch(self, found) ==
    [iter_err |-> found.err, cache |-> found.cache, counts |-> found.counts,
     chunks |-> Chunks(Dispatched(found.yielded, found.err, ChunkSize), ChunkSize,
                       [self |-> self, cache |-> found.cache,
                        counts |-> found.counts])]

(***************************************************************************)
(* save_time_coverages and load_time_coverages                              *)
(***************************************************************************)
\* dt.strftime("%Y-%m-%dT%H:%M:%S.%f"): the C library of the platform either
\* pads the year to four digits or writes it as it is
Strftime(dt, padded) ==
    (IF padded THEN Fmt(dt.year, 4) ELSE Str(dt.year)) \o <<"-">> \o Fmt(dt.month, 2) \o <<"-">> \o Fmt(dt.day, 2)
    \o <<"T">> \o Fmt(dt.hour, 2) \o <<":">> \o Fmt(dt.minute, 2) \o <<":">>
    \o Fmt(dt.second, 2) \o <<".">> \o Fmt(dt.microsecond, 6)

\* datetime.strptime(s, "%Y-%m-%dT%H:%M:%S.%f") of a string with a fraction of
\* six digits: the fields at their places, or ValueError
Strptime(s) ==
    IF \/ Len(s) # 26
       \/ <<s[5], s[8], s[11], s[14], s[17], s[20]>> # <<"-", "-", "T", ":", ":", ".">>
       \/ \E i \in (1..26) \ {5, 8, 11, 14, 17, 20} : ~IsDigit(s[i])
    THEN [err |-> "ValueError", val |-> <<>>]
    ELSE LET y == IntOf(SubSeq(s, 1, 4))
             mo == IntOf(SubSeq(s, 6, 7))
             d == IntOf(SubSeq(s, 9, 10))
             h == IntOf(SubSeq(s, 12, 13))
             mi == IntOf(SubSeq(s, 15, 16))
             sec == IntOf(SubSeq(s, 18, 19))
         IN  IF mo \in 1..12 /\ y >= 1 /\ h < 24 /\ mi < 60 /\ sec < 62
                /\ d >= 1 /\ d <= DaysInMonth(y, mo)
             THEN [err |-> "none",
                   val |-> DT(y, mo, d, h, mi, sec, IntOf(SubSeq(s, 21, 26)))]
             ELSE [err |-> "ValueError", val |-> <<>>]

\* the content save_time_coverages writes for a cache: filename -> the two
\* times as strings
save_time_coverages(cache, padded) ==
    [json |-> TRUE,
     content |-> [file \in DOMAIN cache |->
                     <<Strftime(cache[file][1], padded),
                       Strftime(cache[file][2], padded)>>]]

\* no file of that name; a file that is not JSON
MissingFile == [json |-> FALSE, content |-> "missing"]

CorruptFile == [json |-> FALSE, content |-> "corrupt"]

\* a variant of load_time_coverages that keeps only the entries of the file
load_time_coverages_only(cache, stored) ==
    IF ~stored.json THEN [err |-> "none", cache |-> cache, loaded |-> EmptyDict]
    ELSE LET time_coverages ==
                 [file \in DOMAIN stored.content |->
                     <<Strptime(stored.content[file][1]).val,
                       Strptime(stored.content[file][2]).val>>]
         IN  [err |-> "none", cache |-> time_coverages, loaded |-> time_coverages]

\* load_time_coverages(filename) for the content stored of the file: a
\* missing file is passed over, a file that is not JSON is warned about, and
\* the parsed entries of a JSON file update the cache
load_time_coverages(cache, stored) ==
    IF ~stored.json THEN [err |-> "none", cache |-> cache, loaded |-> EmptyDict]
    ELSE IF \E file \in DOMAIN stored.content, k \in 1..2 :
                Strptime(stored.content[file][k]).err # "none"
    THEN [err |-> "ValueError", cache |-> cache, loaded |-> EmptyDict]
    ELSE LET time_coverages ==
                 [file \in DOMAIN stored.content |->
                     <<Strptime(stored.content[file][1]).val,
                       Strptime(stored.content[file][2]).val>>]
         IN  [err |-> "none", cache |-> time_coverages @@ cache,
              loaded |-> time_coverages]

(***************************************************************************)
(* typhon.utils.cache.mutable_cache                                         *)
(***************************************************************************)
\* str(x) of an argument: two different arguments may have the same string
StrOf(arg) == IF arg = "b2" THEN "b" ELSE arg

\* key = str(args) + str(kwds), kwds being the keywords left for the function
MakeKey(arg, kwds) == <<StrOf(arg), kwds>>

\* the decorated function right after decoration
Decorated(maxsize) ==
    [maxsize |-> maxsize, cache |-> EmptyDict, keylist |-> <<>>, running |-> <<>>,
     out |-> [kind |-> "none"]]

\* cache.clear() and keylist.clear() when CLEAR_CACHE is given and true
Cleared(m, clear) ==
    IF clear = "True" THEN [m EXCEPT !.cache = EmptyDict, !.keylist = <<>>] ELSE m

\* the keywords the function is called with: a true CLEAR_CACHE and every
\* NO_CACHE are deleted, a false CLEAR_CACHE stays
Keywords(clear) == IF clear = "False" THEN {"CLEAR_CACHE"} ELSE {}

\* wrapper(arg, CLEAR_CACHE=clear, NO_CACHE=no_cache) up to the return of a
\* cached result or the call of the function
wrapper_call(m, arg, clear, no_cache) ==
    LET c == Cleared(m, clear)
        key == MakeKey(arg, Keywords(clear))
    IN  IF no_cache = "True"
        THEN [c EXCEPT !.running = Append(@, [arg |-> arg, kwds |-> Keywords(clear),
                                              key |-> key, store |-> FALSE]),
                       !.out = [kind |-> "called", arg |-> arg, clear |-> clear,
                                no_cache |-> no_cache]]
        ELSE IF key \in DOMAIN c.cache
        THEN [c EXCEPT !.out = [kind |-> "hit", arg |-> arg, clear |-> clear,
                                no_cache |-> no_cache, val |-> c.cache[key]]]
        ELSE [c EXCEPT !.running = Append(@, [arg |-> arg, kwds |-> Keywords(clear),
                                              key |-> key, store |-> TRUE]),
                       !.out = [kind |-> "called", arg |-> arg, clear |-> clear,
                                no_cache |-> no_cache]]

\* the rotation after a result was stored: with more than maxsize keys in the
\* list the first is deleted from the cache and from the list; when the cache
\* does not hold it, the KeyError is passed over and the list stays as it is
Rotate(m) ==
    IF Len(m.keylist) > m.maxsize
    THEN IF m.keylist[1] \in DOMAIN m.cache
         THEN [m EXCEPT !.cache = DictDel(@, m.keylist[1]), !.keylist = Tail(@)]
         ELSE m
    ELSE m

Without(seq, i) == SubSeq(seq, 1, i - 1) \o SubSeq(seq, i + 1, Len(seq))

\* a variant of wrapper_return that also stores the result of a NO_CACHE call
wrapper_return_storing(m, i, raised) ==
    LET call == m.running[i]
        rest == [m EXCEPT !.running = Without(@, i)]
        result == <<"result", call.arg>>
    IN  IF raised
        THEN [rest EXCEPT !.out = [kind |-> "raised", arg |-> call.arg]]
        ELSE [Rotate([rest EXCEPT !.cache = DictSet(@, call.key, result),
                                  !.keylist = Append(@, call.key)])
                 EXCEPT !.out = [kind |-> "returned", arg |-> call.arg, val |-> result,
                                 kwds |-> call.kwds, store |-> call.store]]

\* the function of call i returns or raises: the wrapper stores the result,
\* appends the key and rotates, unless the call was made with NO_CACHE
wrapper_return(m, i, raised) ==
    LET call == m.running[i]
        rest == [m EXCEPT !.running = Without(@, i)]
        result == <<"result", call.arg>>
    IN  IF raised
        THEN [rest EXCEPT !.out = [kind |-> "raised", arg |-> call.arg]]
        ELSE IF ~call.store
        THEN [rest EXCEPT !.out = [kind |-> "returned", arg |-> call.arg, val |-> result,
                                   kwds |-> call.kwds, store |-> FALSE]]
        ELSE [Rotate([rest EXCEPT !.cache = DictSet(@, call.key, result),
                                  !.keylist = Append(@, call.key)])
                 EXCEPT !.out = [kind |-> "returned", arg |-> call.arg, val |-> result,
                                 kwds |-> call.kwds, store |-> TRUE]]

(***************************************************************************)
(* The datasets and file trees of the model                                 *)
(***************************************************************************)
Day(d, h, m) == DT(2017, 11, d, h, m, 0, 0)

Root(c) == <<L("/"), L(c), L("/")>>

\* the docstring example: "/a/{year}/{month}/{day}.n"
TplDaily ==
    Root("a") \o <<P("year"), L("/"), P("month"), L("/"), P("day"), L("."), L("n")>>

\* "/a/{year}{month}{day}-{end_day}.n"
TplSpan ==
    Root("a") \o <<P("year"), P("month"), P("day"), L("-"), P("end_day"), L("."), L("n")>>

\* "/c/{year}{month}{day}{hour}{minute}-{end_minute}" for the root c
TplGranule(c) ==
    Root(c) \o <<P("year"), P("month"), P("day"), P("hour"), P("minute"),
                 L("-"), P("end_minute")>>

\* "/a/{year2}{doy}.n"
TplYear2 == Root("a") \o <<P("year2"), P("doy"), L("."), L("n")>>

\* "/a/{year}/{foo}.n"
TplUnknown == Root("a") \o <<P("year"), L("/"), P("foo"), L("."), L("n")>>

\* "/a/{year}{month}{day}-{end_millisecond}"
TplEndMs == Root("a") \o <<P("year"), P("month"), P("day"), L("-"), P("end_millisecond")>>

\* "/a/f.n"
TplSingle == Root("a") \o <<L("f"), L("."), L("n")>>

\* "/a/{year}{month}{day}.n"
TplFlat == Root("a") \o <<P("year"), P("month"), P("day"), L("."), L("n")>>

\* "/a/{day}/{year}{month}.n"
TplDayFirst ==
    Root("a") \o <<P("day"), L("/"), P("year"), P("month"), L("."), L("n")>>

\* "/a/{name}-{year}{month}{day}.n"
TplNamed ==
    Root("a") \o <<P("name"), L("-"), P("year"), P("month"), P("day"), L("."), L("n")>>

\* "/a/{year2}{month}{day}-{end_year2}{end_month}{end_day}.n"
TplYear2Span ==
    Root("a") \o <<P("year2"), P("month"), P("day"), L("-"),
                   P("end_year2"), P("end_month"), P("end_day"), L("."), L("n")>>

\* "/a/{year}{month}{day}{hour}.n"
TplHour == Root("a") \o <<P("year"), P("month"), P("day"), P("hour"), L("."), L("n")>>

\* "/a/{year}{month}{day}{hour}{minute}{second}.n"
TplSecond ==
    Root("a") \o <<P("year"), P("month"), P("day"), P("hour"), P("minute"), P("second"),
                   L("."), L("n")>>

\* "/a/{year}{month}{day}{hour}{minute}{second}{millisecond}.n"
TplMillis ==
    Root("a") \o <<P("year"), P("month"), P("day"), P("hour"), P("minute"), P("second"),
                   P("millisecond"), L("."), L("n")>>

\* "/a/{year}{month}{day}-{millisecond}.n"
TplDayMillis ==
    Root("a") \o <<P("year"), P("month"), P("day"), L("-"), P("millisecond"), L("."), L("n")>>

\* "a/{year}{month}{day}.n", relative to the working directory
TplRelative == <<L("a"), L("/"), P("year"), P("month"), P("day"), L("."), L("n")>>

\* "/a/*"
TplStar == Root("a") \o <<L("*")>>

ByName == [mode |-> "filename", times |-> <<>>]

ByContent == [mode |-> "content", times |-> <<>>]

Explicit(start, end) == [mode |-> "explicit", times |-> <<start, end>>]

\* the coverages whose files may exist, per template
Covers(template) ==
    CASE template = TplDaily -> {<<Day(12, 0, 0), Day(12, 0, 0)>>, <<Day(13, 0, 0), Day(13, 0, 0)>>}
      [] template = TplSpan -> {<<Day(12, 0, 0), Day(14, 0, 0)>>, <<Day(30, 0, 0), DT(2017, 12, 2, 0, 0, 0, 0)>>}
      [] template = TplGranule("a") ->
            {<<Day(12, 10, 0), Day(12, 10, 5)>>, <<Day(12, 9, 50), Day(12, 9, 55)>>,
             <<Day(12, 10, 0), Day(12, 10, 10)>>}
      [] template = TplGranule("p") ->
            {<<Day(12, 10, 0), Day(12, 10, 5)>>, <<Day(12, 10, 6), Day(12, 10, 8)>>}
      [] template = TplGranule("q") ->
            {<<Day(12, 10, 4), Day(12, 10, 6)>>, <<Day(12, 10, 20), Day(12, 10, 25)>>}
      [] template = TplYear2 -> {<<Day(12, 0, 0), Day(12, 0, 0)>>}
      [] template = TplEndMs -> {<<Day(12, 0, 0), Day(12, 0, 0)>>}
      [] template = TplFlat -> {<<Day(12, 0, 0), Day(12, 0, 0)>>}
      [] template = TplRelative -> {<<Day(12, 0, 0), Day(12, 0, 0)>>}
      [] OTHER -> {}

NameOf(d) == <<d>>

\* the files that may exist for a dataset: those its template names, and for
\* the templates without time placeholders one fixed file
FilesFor(template, name) ==
    IF template = TplSingle THEN {PathOf(TplSingle)}
    ELSE IF template = TplStar THEN {<<"/", "a", "/", "2", "0", "1", "7", "1", "1", "1", "2">>}
    ELSE {FillTokens(template, c[1], c[2], name) : c \in Covers(template)}

\* further files of the tree that the template does not name
Strays(template) ==
    IF template = TplDaily
    THEN {FillTokens(Root("a") \o <<P("year"), L("/"), P("month"), L("/"), P("day"),
                                    L("."), L("x")>>,
                     Day(12, 0, 0), Day(12, 0, 0), <<>>)}
    ELSE IF template = TplSpan
    THEN {<<"/", "a", "/", "2", "0", "1", "7", "1", "1", "1", "2", "-", "4", "1", ".", "n">>}
    ELSE IF template = TplUnknown
    THEN {<<"/", "a", "/", "2", "0", "1", "7", "1", "1", "1", "2">>}
    ELSE IF template = TplRelative
    THEN {<<"a", "/", "x">>}
    ELSE IF template = TplFlat
    THEN {FillTokens(TplFlat \o <<L("x")>>, Day(12, 0, 0), Day(12, 0, 0), <<>>)}
    ELSE {}

\* the sequences without repetition of elements of S
RECURSIVE Arrangements(_)
Arrangements(S) ==
    {<<>>} \cup UNION {{<<x>> \o rest : rest \in Arrangements(S \ {x})} : x \in S}

One(template, time_coverage) ==
    [files |-> [d \in {"A"} |-> template], time_coverage |-> [d \in {"A"} |-> time_coverage]]

\* the datasets whose filenames are resolved
ResolveConfigurations ==
    {One(TplDaily, ByName), One(TplDaily, ByContent), One(TplSpan, ByName),
     One(TplYear2, ByName), One(TplUnknown, ByName), One(TplEndMs, ByName),
     One(TplSingle, ByName), One(TplSingle, Explicit(Day(12, 0, 0), Day(13, 0, 0)))}

\* the datasets whose files are searched
FindConfigurations ==
    {One(TplDaily, ByName), One(TplSpan, ByName), One(TplGranule("a"), ByName),
     One(TplUnknown, ByName), One(TplStar, ByContent),
     One(TplSingle, Explicit(Day(12, 0, 0), Day(13, 0, 0)))}

\* the datasets whose template has the unknown placeholder {foo}
UseConfigurations == {One(TplUnknown, ByName), One(TplUnknown, ByContent)}

\* the pairs of datasets whose files are matched
OverlapConfigurations ==
    {[files |-> ("A" :> TplGranule("p") @@ "B" :> TplGranule("q")),
      time_coverage |-> ("A" :> ByName @@ "B" :> ByName)]}

\* the datasets whose names carry two-digit years
Year2Configurations == {One(TplYear2, ByName), One(TplYear2Span, ByName)}

\* the pairs of dates the names with two-digit years are generated for
Year2Covers ==
    {<<DT(2058, 3, 1, 0, 0, 0, 0), DT(1970, 3, 2, 0, 0, 0, 0)>>,
     <<DT(1970, 3, 1, 0, 0, 0, 0), DT(2058, 3, 2, 0, 0, 0, 0)>>,
     <<DT(2064, 12, 31, 0, 0, 0, 0), DT(1965, 1, 1, 0, 0, 0, 0)>>,
     <<DT(1965, 1, 1, 0, 0, 0, 0), DT(2064, 12, 31, 0, 0, 0, 0)>>,
     <<DT(2000, 2, 29, 0, 0, 0, 0), DT(1999, 12, 31, 0, 0, 0, 0)>>}

\* the datasets of templates of one finest unit each
ResolutionConfigurations ==
    {One(TplDaily, ByName), One(TplHour, ByName), One(TplSecond, ByName),
     One(TplMillis, ByName), One(TplDayMillis, ByName)}

\* the datasets in which the file of a timestamp is looked for
FindFileConfigurations == {One(TplDaily, ByName), One(TplRelative, ByName)}

\* the timestamps a file is looked for
FindTimes ==
    {Day(12, 10, 0), Day(12, 20, 0), Day(14, 0, 0), DT(2018, 1, 1, 0, 0, 0, 0)}

\* "/m/{year}{month}{day}{hour}.n" and the template of the output dataset
TplHourly == Root("m") \o <<P("year"), P("month"), P("day"), P("hour"), L("."), L("n")>>

TplOut == Root("o") \o <<P("year"), P("month"), P("day"), P("hour"), L("."), L("n")>>

\* the dataset whose files are mapped, and the dataset the results go to
MapConfigurations ==
    {[files |-> ("A" :> TplHourly @@ "O" :> TplOut),
      time_coverage |-> ("A" :> ByName @@ "O" :> ByName)]}

\* the files of the first MapHours hours of 12 November, which make more
\* than one chunk
MapHours == 12

MapListing ==
    [h \in 1..MapHours |->
        FillTokens(TplHourly, Day(12, h - 1, 0), Day(12, h - 1, 0), <<"A">>)]

\* the periods that are mapped: all files, two files, no file
MapPeriods ==
    {<<Day(12, 0, 0), Day(13, 0, 0)>>, <<Day(12, 3, 0), Day(12, 5, 0)>>,
     <<Day(14, 0, 0), Day(15, 0, 0)>>}

ShortPeriod == <<Day(12, 3, 0), Day(12, 5, 0)>>

Funcs == {"name", "resolve", "boom4", "boom10"}

\* "/a/20171112": one file, named without placeholders
TplDated == Root("a") \o <<L("2"), L("0"), L("1"), L("7"), L("1"), L("1"), L("1"), L("2")>>

\* the datasets of one file with an explicit time coverage
ExplicitConfigurations ==
    {One(TplDated, Explicit(Day(12, 0, 0), Day(13, 0, 0))),
     One(TplDated, Explicit(Day(12, 6, 0), Day(13, 6, 0)))}

\* the datasets whose cache is saved and loaded
PersistConfigurations == {One(TplFlat, ByName), One(TplMillis, ByName)}

\* the dataset whose tree holds names with characters after the template
MatchConfigurations == {One(TplFlat, ByName)}

Configurations ==
    ResolveConfigurations \cup FindConfigurations \cup UseConfigurations
    \cup OverlapConfigurations \cup MatchConfigurations \cup Year2Configurations
    \cup ResolutionConfigurations \cup FindFileConfigurations

\* the listings of a configuration: the files of A in any order, then those of B
TreeOf(template, name) == FilesFor(template, name) \cup Strays(template)

Listings(config) ==
    IF "B" \in DOMAIN config.files
    THEN {a \o b : a \in Arrangements(TreeOf(config.files["A"], NameOf("A"))),
                   b \in Arrangements(TreeOf(config.files["B"], NameOf("B")))}
    ELSE Arrangements(TreeOf(config.files["A"], NameOf("A")))

\* the listings with every file of the tree
FullListings(config) ==
    {l \in Listings(config) : \A l2 \in Listings(config) : Len(l2) <= Len(l)}

\* the timestamps filenames are generated for
Times == {DT(2017, 11, 12, 10, 0, 30, 123456), DT(1950, 3, 1, 0, 0, 0, 0)}

\* the periods files are searched in
Periods ==
    {<<Day(12, 0, 0), Day(13, 0, 0)>>,
     <<Day(12, 9, 55), Day(12, 10, 5)>>,
     <<Day(12, 9, 55), Day(12, 10, 0)>>,
     <<Day(13, 0, 0), Day(15, 0, 0)>>}

\* the periods overlapping files are searched in
OverlapPeriods ==
    {<<Day(12, 0, 0), Day(13, 0, 0)>>,
     <<Day(12, 10, 0), Day(12, 10, 5)>>,
     <<Day(12, 10, 5), Day(12, 10, 30)>>}

MaxIntervals == {{}, {60}}

NoMatch == <<"/", "a", "/", "x">>

\* how often the model lets one path be parsed
MaxParse == 2

(***************************************************************************)
(* The state                                                                *)
(***************************************************************************)
VARIABLES
    files,                  \* files[d]: the path template of dataset d
    continuous,             \* continuous[d]
    time_coverage,          \* time_coverage[d]: how coverages are retrieved
    time_coverages_cache,   \* time_coverages_cache[d]: filename -> <<start, end>>
    parse_count,            \* parse_count[d][filename]: expensive steps so far
    fs,                     \* the files on disk, in listing order
    ret,                    \* the call that has just returned, or Idle
    pool,                   \* the worker processes of the map call in progress
    memo,                   \* a function decorated with mutable_cache: its cache,
                            \* its key list and its calls in progress
    _name,                  \* _name[d]: the name of dataset d
    placeholder_name,       \* Dataset.placeholder["name"], shared by all datasets
    atexit                  \* the cache file given as times_cache, and whether
                            \* its save is registered to run at exit

vars == <<files, continuous, time_coverage, time_coverages_cache, parse_count, fs, ret, pool, memo,
          _name, placeholder_name, atexit>>

Datasets == DOMAIN files

Idle == [op |-> "idle"]

\* no map call is in progress: there are no worker processes
NoPool == <<>>

\* no function has been decorated
NoMemo == [out |-> [kind |-> "undecorated"]]

Self(d) ==
    [files |-> files[d], name |-> _name[d], placeholder_name |-> placeholder_name,
     continuous |-> continuous[d],
     time_coverage |-> time_coverage[d]]

\* the filenames the model asks the coverage of
QueryPaths(d) ==
    TreeOf(files[d], NameOf(d))
    \cup {generate_filename(files[d], t, t, NameOf(d)).val : t \in Times}
    \cup {NoMatch}

\* names with characters before the part the template names
Preceded(d) ==
    {<<"/", "b">> \o FillTokens(files[d], Day(12, 0, 0), Day(12, 0, 0), NameOf(d))}

\* names with two-digit years
Year2Paths(d) == {FillTokens(files[d], c[1], c[2], NameOf(d)) : c \in Year2Covers}

\* the names the template gives the timestamps of the model
TimesPaths(d) == {FillTokens(files[d], t, t, NameOf(d)) : t \in Times}

\* the setter of files: it stores the template and the names of its
\* placeholders, and looks at none of the names
files_setter(value) ==
    [err |-> "none", files |-> value, files_placeholders |-> FilesPlaceholders(value),
     single_file |-> SingleFile(value)]

\* Dataset.__init__: the setter of files, the time coverage, the empty cache
\* the order of the construction of the datasets: A, then B, then the
\* dataset of the output
Rank(d) == IF d = "A" THEN 1 ELSE IF d = "B" THEN 2 ELSE 3

Before(e, d) == Rank(e) <= Rank(d)

\* the name setter writes the name into the dict of the class as well:
\* after the datasets are constructed, in the order of their keys, the dict
\* holds the name of the last one, and "" when there is none
LastName(ds) ==
    IF ds = {} THEN <<>> ELSE NameOf(CHOOSE d \in ds : \A e \in ds : Before(e, d))

\* no times_cache was given: nothing is loaded and nothing is registered
NoAtexit == [given |-> FALSE]

Construct(config) ==
    /\ \A d \in DOMAIN config.files : files_setter(config.files[d]).err = "none"
    /\ files = [d \in DOMAIN config.files |-> files_setter(config.files[d]).files]
    /\ time_coverage = config.time_coverage
    /\ continuous \in [DOMAIN config.files -> BOOLEAN]
    /\ time_coverages_cache = [d \in DOMAIN config.files |-> EmptyDict]
    /\ parse_count = [d \in DOMAIN config.files |-> EmptyDict]
    /\ ret = Idle
    /\ pool = NoPool
    /\ memo = NoMemo
    /\ _name = [d \in DOMAIN config.files |-> NameOf(d)]
    /\ placeholder_name = LastName(DOMAIN config.files)
    /\ atexit = NoAtexit

Init == \E config \in Configurations : Construct(config) /\ fs \in Listings(config)

InitResolve ==
    \E config \in ResolveConfigurations : Construct(config) /\ fs \in FullListings(config)

InitFind == \E config \in FindConfigurations : Construct(config) /\ fs \in Listings(config)

InitUse == \E config \in UseConfigurations : Construct(config) /\ fs \in Listings(config)

InitOverlap ==
    \E config \in OverlapConfigurations : Construct(config) /\ fs \in Listings(config)

\* dataset.continuous = value
SetContinuous(d, value) ==
    /\ ret = Idle
    /\ continuous' = [continuous EXCEPT ![d] = value]
    /\ UNCHANGED <<files, time_coverage, time_coverages_cache, parse_count, fs, ret, pool, memo, _name, placeholder_name, atexit>>

\* dataset.name = value: the setter stores the name in the dataset and in
\* the dict of the class
SetName(d, value) ==
    /\ ret = Idle
    /\ _name' = [_name EXCEPT ![d] = value]
    /\ placeholder_name' = value
    /\ UNCHANGED <<files, continuous, time_coverage, time_coverages_cache, parse_count, fs, ret, pool, memo, atexit>>

RetrieveTimeCoverage(d, filename) ==
    /\ ret = Idle
    /\ Count(parse_count[d], filename) < MaxParse
    /\ \E r \in {retrieve_time_coverage(Self(d), time_coverages_cache[d],
                                       parse_count[d], fs, filename)} :
           /\ time_coverages_cache' = [time_coverages_cache EXCEPT ![d] = r.cache]
           /\ parse_count' = [parse_count EXCEPT ![d] = r.counts]
           /\ ret' = [op |-> "retrieve_time_coverage", d |-> d, filename |-> filename,
                      err |-> r.err, val |-> r.val, hit |-> r.hit]
    /\ UNCHANGED <<files, continuous, time_coverage, fs, pool, memo, _name, placeholder_name, atexit>>

GenerateFilename(d, start_time) ==
    /\ ret = Idle
    /\ \E r \in {generate_filename(files[d], start_time, start_time, _name[d])} :
           ret' = [op |-> "generate_filename", d |-> d, start_time |-> start_time,
                   err |-> r.err, val |-> r.val]
    /\ UNCHANGED <<files, continuous, time_coverage, time_coverages_cache, parse_count, fs, pool, memo, _name, placeholder_name, atexit>>

FindFiles(d, period, sort, no_files_error) ==
    /\ ret = Idle
    /\ \A f \in DOMAIN parse_count[d] : parse_count[d][f] < MaxParse
    /\ \E r \in {find_files(Self(d), time_coverages_cache[d], parse_count[d], fs,
                           period[1], period[2], sort, no_files_error)} :
           /\ time_coverages_cache' = [time_coverages_cache EXCEPT ![d] = r.cache]
           /\ parse_count' = [parse_count EXCEPT ![d] = r.counts]
           /\ ret' = [op |-> "find_files", d |-> d, start |-> period[1], end |-> period[2],
                      sort |-> sort, no_files_error |-> no_files_error,
                      err |-> r.err, yielded |-> r.yielded]
    /\ UNCHANGED <<files, continuous, time_coverage, fs, pool, memo, _name, placeholder_name, atexit>>

FindOverlappingFiles(d, other, period, max_interval) ==
    /\ ret = Idle
    /\ d # other
    /\ \A x \in {d, other} : \A f \in DOMAIN parse_count[x] : parse_count[x][f] < MaxParse
    /\ \E r \in {find_overlapping_files(Self(d), Self(other),
                    time_coverages_cache[d], parse_count[d],
                    time_coverages_cache[other], parse_count[other],
                    fs, period[1], period[2], max_interval)} :
           /\ time_coverages_cache' =
                [time_coverages_cache EXCEPT ![d] = r.cache, ![other] = r.other_cache]
           /\ parse_count' = [parse_count EXCEPT ![d] = r.counts, ![other] = r.other_counts]
           /\ ret' = [op |-> "find_overlapping_files", d |-> d, other |-> other,
                      start |-> period[1], end |-> period[2], max_interval |-> max_interval,
                      err |-> r.err, yielded |-> r.yielded]
    /\ UNCHANGED <<files, continuous, time_coverage, fs, pool, memo, _name, placeholder_name, atexit>>

\* find_file(timestamp) up to its loop
FindFile(d, timestamp) ==
    /\ ret = Idle
    /\ \A f \in DOMAIN parse_count[d] : parse_count[d][f] < MaxParse
    /\ \E r \in {find_file(Self(d), fs, timestamp)} :
           ret' = [op |-> "find_file", d |-> d] @@ r
    /\ UNCHANGED <<files, continuous, time_coverage, time_coverages_cache, parse_count, fs, pool, memo, _name, placeholder_name, atexit>>

\* the test of the loop of find_file and, when the loop is left, the choice
\* of the file
FindFileTest ==
    /\ ret.op = "find_file"
    /\ ret.pc = "test"
    /\ ret' = find_file_test(ret)
    /\ UNCHANGED <<files, continuous, time_coverage, time_coverages_cache, parse_count, fs, pool, memo, _name, placeholder_name, atexit>>

\* the body of the loop of find_file
FindFileBody ==
    /\ ret.op = "find_file"
    /\ ret.pc = "body"
    /\ \E path \in {RSplit(ret.path)} :
       \E found \in {_get_all_files(fs, path, RegexTokens(files[ret.d], placeholder_name))} :
       \E st \in {RetrieveAll(Self(ret.d), fs, found, 1,
                      [err |-> "none", times |-> <<>>,
                       cache |-> time_coverages_cache[ret.d],
                       counts |-> parse_count[ret.d]])} :
           /\ ret' = FindFileListed(ret, path, found, st)
           /\ time_coverages_cache' = [time_coverages_cache EXCEPT ![ret.d] = st.cache]
           /\ parse_count' = [parse_count EXCEPT ![ret.d] = st.counts]
    /\ UNCHANGED <<files, continuous, time_coverage, fs, pool, memo, _name, placeholder_name, atexit>>

\* the caller takes the result
Return ==
    /\ ret # Idle
    /\ "pc" \in DOMAIN ret => ret.pc = "done"
    /\ ret' = Idle
    /\ UNCHANGED <<files, continuous, time_coverage, time_coverages_cache, parse_count, fs, pool, memo, _name, placeholder_name, atexit>>

\* the cache files a dataset is given to load: what a Dataset of its template
\* saved after it resolved files of the tree, with continuous on or off, and
\* no file, and a file that is not JSON
ResolvedBy(d, flag) ==
    LET self == [Self(d) EXCEPT !.continuous = flag]
        named == {f \in Range(fs) :
                     retrieve_time_coverage(self, EmptyDict, EmptyDict, fs, f).err = "none"}
    IN  [f \in named |-> retrieve_time_coverage(self, EmptyDict, EmptyDict, fs, f).val]

CacheFiles(d) ==
    {save_time_coverages([f \in names |-> ResolvedBy(d, flag)[f]], padded) :
        padded \in BOOLEAN, flag \in BOOLEAN, names \in (SUBSET DOMAIN ResolvedBy(d, TRUE)) \ {{}}}
    \cup {MissingFile, CorruptFile}

\* dataset.load_time_coverages(filename), the file holding stored
LoadTimeCoverages(d, stored) ==
    /\ ret = Idle
    /\ \E r \in {load_time_coverages(time_coverages_cache[d], stored)} :
           /\ time_coverages_cache' = [time_coverages_cache EXCEPT ![d] = r.cache]
           /\ ret' = [op |-> "load_time_coverages", d |-> d, err |-> r.err,
                      loaded |-> r.loaded,
                      replaced |-> {f \in DOMAIN time_coverages_cache[d] :
                                       f \notin DOMAIN r.cache
                                       \/ r.cache[f] # time_coverages_cache[d][f]}]
    /\ UNCHANGED <<files, continuous, time_coverage, parse_count, fs, pool, memo, _name, placeholder_name, atexit>>

\* dataset.retrieve_time_coverage(filename, retrieve_method)
RetrieveTimeCoverageWith(d, filename, retrieve_method) ==
    /\ ret = Idle
    /\ Count(parse_count[d], filename) < MaxParse
    /\ \E r \in {retrieve_time_coverage_with(Self(d), time_coverages_cache[d],
                     parse_count[d], fs, filename, retrieve_method)} :
           /\ time_coverages_cache' = [time_coverages_cache EXCEPT ![d] = r.cache]
           /\ parse_count' = [parse_count EXCEPT ![d] = r.counts]
           /\ ret' = [op |-> "retrieve_time_coverage", d |-> d, filename |-> filename,
                      err |-> r.err, val |-> r.val, hit |-> r.hit,
                      retrieve_method |-> retrieve_method]
    /\ UNCHANGED <<files, continuous, time_coverage, fs, pool, memo, _name, placeholder_name, atexit>>

\* the paths the dataset of one file is asked the coverage of
ExplicitPaths(d) ==
    {PathOf(files[d]), NoMatch, <<"/", "a", "/", "2", "0", "1", "7", "1", "1", "1", "3">>}

\* the cache files the dataset of one file is given to load: what a Dataset
\* that reads the coverage from the content saved, and no file
ContentCacheFiles(d) ==
    {save_time_coverages([f \in {PathOf(files[d])} |-> get_info(fs, f).val], padded) :
        padded \in BOOLEAN}
    \cup {save_time_coverages(EmptyDict, FALSE), MissingFile}

\* the times whose filenames are resolved before the cache is saved
PersistTimes ==
    {DT(2017, 11, 12, 10, 0, 30, 123000), DT(999, 3, 4, 5, 6, 7, 0),
     DT(2064, 12, 31, 23, 59, 59, 999000)}

\* the names of the files of these times, the year written with four digits
PersistPaths(d) ==
    {LET name == FillTokens(files[d], t, t, NameOf(d))
     IN  IF t.year >= 1000 THEN name
         ELSE SubSeq(name, 1, 3) \o <<"0">> \o SubSeq(name, 4, Len(name)) :
     t \in PersistTimes}

\* dataset.save_time_coverages(file) and then load_time_coverages(file) of a
\* fresh Dataset: loaded is the cache of the fresh Dataset after it
SaveAndLoad(d, padded) ==
    /\ ret = Idle
    /\ \E r \in {load_time_coverages(EmptyDict,
                     save_time_coverages(time_coverages_cache[d], padded))} :
           ret' = [op |-> "save_and_load", d |-> d, padded |-> padded,
                   err |-> r.err, loaded |-> r.cache]
    /\ UNCHANGED <<files, continuous, time_coverage, time_coverages_cache, parse_count, fs, pool, memo, _name, placeholder_name, atexit>>

\* the cache files found at the construction with times_cache: no file, a
\* file that is not JSON, a file saved with one entry, and a file whose
\* entry has a year of three digits
AtExitFiles(d) ==
    {MissingFile, CorruptFile}
    \cup {save_time_coverages(
              [f \in {FillTokens(files[d], Day(12, 0, 0), Day(12, 0, 0), _name[d])} |->
                  <<Day(12, 0, 0), Day(13, 0, 0)>>], padded) : padded \in BOOLEAN}
    \cup {save_time_coverages(
              [f \in {<<"/", "a", "/", "0", "9", "9", "9", "0", "3", "0", "4", ".", "n">>} |->
                  <<DT(999, 3, 4, 0, 0, 0, 0), DT(999, 3, 5, 0, 0, 0, 0)>>], padded) :
           padded \in BOOLEAN}

\* the end of __init__ when times_cache is given: the file is loaded, and
\* only when the load raised nothing the save is registered to run at exit;
\* what the load raises, the constructor raises
InitTimesCache(d, stored) ==
    /\ ret = Idle
    /\ atexit = NoAtexit
    /\ time_coverages_cache[d] = EmptyDict
    /\ \E r \in {load_time_coverages(time_coverages_cache[d], stored)} :
           /\ time_coverages_cache' = [time_coverages_cache EXCEPT ![d] = r.cache]
           /\ ret' = [op |-> "__init__", d |-> d, err |-> r.err]
           /\ atexit' = [given |-> TRUE, d |-> d, original |-> stored, file |-> stored,
                         raised |-> r.err # "none", registered |-> r.err = "none",
                         exited |-> FALSE]
    /\ UNCHANGED <<files, continuous, time_coverage, parse_count, fs, pool, memo, _name, placeholder_name>>

\* the dataset constructed with times_cache is in use
InUse == atexit.given /\ ~atexit.raised /\ ~atexit.exited

\* the process exits: the registered save_time_coverages writes the cache
\* over the file
Exit(padded) ==
    /\ ret = Idle
    /\ atexit.given /\ ~atexit.exited
    /\ atexit' = [atexit EXCEPT !.exited = TRUE,
                                !.file = IF atexit.registered
                                         THEN save_time_coverages(
                                                  time_coverages_cache[atexit.d], padded)
                                         ELSE @]
    /\ UNCHANGED <<files, continuous, time_coverage, time_coverages_cache, parse_count, fs, ret, pool, memo, _name, placeholder_name>>

\* how many keys the list of the model may hold, and how many calls of the
\* function may be in progress at once
MaxKeys == 3

MaxRunning == 2

MemoArgs == {"a", "b", "b2"}

Flags == {"absent", "True", "False"}

\* @mutable_cache(maxsize) on a function
Decorate(maxsize) ==
    /\ memo = NoMemo
    /\ memo' = Decorated(maxsize)
    /\ UNCHANGED <<files, continuous, time_coverage, time_coverages_cache, parse_count, fs, ret, pool, _name, placeholder_name, atexit>>

\* a call of the decorated function, from another call of it or from
\* another thread while calls are in progress
MemoCall(arg, clear, no_cache) ==
    /\ memo # NoMemo
    /\ Len(memo.running) < MaxRunning
    /\ Len(memo.keylist) + Len(memo.running) < MaxKeys
    /\ memo' = wrapper_call(memo, arg, clear, no_cache)
    /\ UNCHANGED <<files, continuous, time_coverage, time_coverages_cache, parse_count, fs, ret, pool, _name, placeholder_name, atexit>>

\* the function of a call in progress returns or raises
MemoReturn(i, raised) ==
    /\ memo # NoMemo
    /\ i \in 1..Len(memo.running)
    /\ memo' = wrapper_return(memo, i, raised)
    /\ UNCHANGED <<files, continuous, time_coverage, time_coverages_cache, parse_count, fs, ret, pool, _name, placeholder_name, atexit>>

MapOps == {"map", "map_content"}

\* dataset.map(start, end, func, include_file_info=..., no_files_error=...)
\* up to the start of the pool; a NoFilesError of the generator of the tasks
\* either reaches the caller or is lost on its way through the pool, and
\* the call then never returns
Map(d, period, func, include_file_info, no_files_error) ==
    /\ ret = Idle
    /\ \A f \in DOMAIN parse_count[d] : parse_count[d][f] < MaxParse
    /\ \E r \in {Dispatch(Self(d), find_files(Self(d), time_coverages_cache[d],
                       parse_count[d], fs, period[1], period[2], FALSE, TRUE))},
          outcome \in {"raised", "hung"} :
           /\ time_coverages_cache' = [time_coverages_cache EXCEPT ![d] = r.cache]
           /\ parse_count' = [parse_count EXCEPT ![d] = r.counts]
           /\ pool' = r.chunks
           /\ ret' = [op |-> "map", d |-> d, period |-> period, func |-> func,
                      include_file_info |-> include_file_info,
                      no_files_error |-> no_files_error, output |-> <<>>,
                      iter_err |-> r.iter_err,
                      pc |-> IF r.iter_err = "NoFilesError" /\ outcome = "hung"
                             THEN "hung" ELSE "pool",
                      err |-> "none", val |-> <<>>]
    /\ UNCHANGED <<files, continuous, time_coverage, fs, memo, _name, placeholder_name, atexit>>

\* dataset.map_content(start, end, func, output=..., ...) up to the start of
\* the pool
MapContent(d, period, func, output, include_file_info, no_files_error) ==
    /\ ret = Idle
    /\ \A f \in DOMAIN parse_count[d] : parse_count[d][f] < MaxParse
    /\ \E r \in {Dispatch(Self(d), find_files(Self(d), time_coverages_cache[d],
                       parse_count[d], fs, period[1], period[2], FALSE, TRUE))},
          outcome \in {"raised", "hung"} :
           /\ time_coverages_cache' = [time_coverages_cache EXCEPT ![d] = r.cache]
           /\ parse_count' = [parse_count EXCEPT ![d] = r.counts]
           /\ pool' = r.chunks
           /\ ret' = [op |-> "map_content", d |-> d, period |-> period, func |-> func,
                      include_file_info |-> include_file_info,
                      no_files_error |-> no_files_error, output |-> output,
                      iter_err |-> r.iter_err,
                      pc |-> IF r.iter_err = "NoFilesError" /\ outcome = "hung"
                             THEN "hung" ELSE "pool",
                      err |-> "none", val |-> <<>>]
    /\ UNCHANGED <<files, continuous, time_coverage, fs, memo, _name, placeholder_name, atexit>>

\* a worker process runs the next task of its chunk
WorkerTask(c) ==
    /\ ret.op \in MapOps
    /\ ret.pc \in {"pool", "done"}
    /\ c \in DOMAIN pool
    /\ pool[c].err = "none"
    /\ pool[c].next <= Len(pool[c].files)
    /\ \E result \in {IF ret.op = "map"
                       THEN _call_function_with_file_info(
                                pool[c].dataset, fs, pool[c].files[pool[c].next],
                                ret.func, ret.include_file_info)
                       ELSE _call_function_with_file_content(
                                pool[c].dataset, fs, pool[c].files[pool[c].next],
                                ret.func,
                                [k \in DOMAIN ret.output |-> Self(ret.output[k])],
                                ret.include_file_info)} :
           \E done \in {TaskDone(time_coverages_cache[ret.d], pool[c], result)} :
               /\ pool' = [pool EXCEPT ![c] = done.chunk]
               /\ time_coverages_cache' =
                      [time_coverages_cache EXCEPT ![ret.d] = done.cache]
               /\ fs' = result.fs
    /\ UNCHANGED <<files, continuous, time_coverage, parse_count, ret, memo, _name, placeholder_name, atexit>>

\* list(pool.imap(...)) ends, and the call raises or returns the results
MapCollect ==
    /\ ret.op \in MapOps
    /\ ret.pc = "pool"
    /\ Collectable(pool)
    /\ \E r \in {Collect(pool, ret.iter_err, ret.no_files_error)} :
           ret' = [ret EXCEPT !.pc = "done", !.err = r.err, !.val = r.val]
    /\ UNCHANGED <<files, continuous, time_coverage, time_coverages_cache, parse_count, fs, pool, memo, _name, placeholder_name, atexit>>

\* the caller takes the outcome of the call, and the pool is given up
MapReturn ==
    /\ ret.op \in MapOps
    /\ ret.pc = "done"
    /\ ret' = Idle
    /\ pool' = NoPool
    /\ UNCHANGED <<files, continuous, time_coverage, time_coverages_cache, parse_count, fs, memo, _name, placeholder_name, atexit>>

Next ==
    \/ \E d \in Datasets, value \in BOOLEAN : SetContinuous(d, value)
    \/ \E d \in Datasets : \E filename \in QueryPaths(d) : RetrieveTimeCoverage(d, filename)
    \/ \E d \in Datasets, start_time \in Times : GenerateFilename(d, start_time)
    \/ \E d \in Datasets, period \in Periods, sort \in BOOLEAN, no_files_error \in BOOLEAN :
          FindFiles(d, period, sort, no_files_error)
    \/ \E d \in Datasets, other \in Datasets, period \in Periods,
          max_interval \in MaxIntervals :
          FindOverlappingFiles(d, other, period, max_interval)
    \/ Return

Spec == Init /\ [][Next]_vars

\* the resolution of filenames: retrieve_time_coverage and generate_filename
NextResolve ==
    \/ \E d \in Datasets, value \in BOOLEAN : SetContinuous(d, value)
    \/ \E d \in Datasets : \E filename \in QueryPaths(d) : RetrieveTimeCoverage(d, filename)
    \/ \E d \in Datasets, start_time \in Times : GenerateFilename(d, start_time)
    \/ Return

SpecResolve == InitResolve /\ [][NextResolve]_vars

\* the search for files: find_files
NextFind ==
    \/ \E d \in Datasets, value \in BOOLEAN : SetContinuous(d, value)
    \/ \E d \in Datasets, period \in Periods, sort \in BOOLEAN, no_files_error \in BOOLEAN :
          FindFiles(d, period, sort, no_files_error)
    \/ Return

SpecFind == InitFind /\ [][NextFind]_vars

\* the uses of a dataset whose template has an unknown placeholder
NextUse ==
    \/ \E d \in Datasets, value \in BOOLEAN : SetContinuous(d, value)
    \/ \E d \in Datasets : \E filename \in QueryPaths(d) : RetrieveTimeCoverage(d, filename)
    \/ \E d \in Datasets, start_time \in Times : GenerateFilename(d, start_time)
    \/ \E d \in Datasets, period \in Periods, sort \in BOOLEAN, no_files_error \in BOOLEAN :
          FindFiles(d, period, sort, no_files_error)
    \/ Return

SpecUse == InitUse /\ [][NextUse]_vars

\* the matching of two datasets: find_overlapping_files
NextOverlap ==
    \/ \E d \in Datasets, other \in Datasets, period \in OverlapPeriods,
          max_interval \in MaxIntervals :
          FindOverlappingFiles(d, other, period, max_interval)
    \/ Return

SpecOverlap == InitOverlap /\ [][NextOverlap]_vars

\* the matching of names against the template: _get_all_files and
\* retrieve_time_coverage on names with further characters
InitMatch ==
    \E config \in MatchConfigurations : Construct(config) /\ fs \in FullListings(config)

NextMatch ==
    \/ \E d \in Datasets, value \in BOOLEAN : SetContinuous(d, value)
    \/ \E d \in Datasets : \E filename \in TreeOf(files[d], NameOf(d)) \cup Preceded(d) :
          RetrieveTimeCoverage(d, filename)
    \/ \E d \in Datasets, period \in Periods, sort \in BOOLEAN, no_files_error \in BOOLEAN :
          FindFiles(d, period, sort, no_files_error)
    \/ Return

SpecMatch == InitMatch /\ [][NextMatch]_vars

\* the resolution of names with two-digit years
InitYear2 == \E config \in Year2Configurations : Construct(config) /\ fs = <<>>

NextYear2 ==
    \/ \E d \in Datasets, value \in BOOLEAN : SetContinuous(d, value)
    \/ \E d \in Datasets : \E filename \in Year2Paths(d) : RetrieveTimeCoverage(d, filename)
    \/ Return

SpecYear2 == InitYear2 /\ [][NextYear2]_vars

\* the search for the file of a timestamp: a call of find_file runs on until
\* it returns
InitFindFile ==
    \E config \in FindFileConfigurations : Construct(config) /\ fs \in Listings(config)

NextFindFile ==
    \/ \E d \in Datasets, timestamp \in FindTimes : FindFile(d, timestamp)
    \/ FindFileTest
    \/ FindFileBody
    \/ Return

\* the test of the loop is taken when it is due, and a call in the body of
\* the loop leaves the body: the body is one finite computation that always
\* moves on to the test or to the end
SpecFindFile ==
    /\ InitFindFile
    /\ [][NextFindFile]_vars
    /\ WF_vars(FindFileTest)
    /\ []<>~(ret.op = "find_file" /\ ret.pc = "body")

\* the extension of the coverage of a continuous dataset
InitResolution == \E config \in ResolutionConfigurations : Construct(config) /\ fs = <<>>

NextResolution ==
    \/ \E d \in Datasets, value \in BOOLEAN : SetContinuous(d, value)
    \/ \E d \in Datasets : \E filename \in TimesPaths(d) : RetrieveTimeCoverage(d, filename)
    \/ Return

SpecResolution == InitResolution /\ [][NextResolution]_vars

\* map and map_content over a tree of twelve files
InitMap ==
    \E config \in MapConfigurations :
        Construct(config) /\ fs = MapListing /\ ~continuous["O"]

NextMap ==
    \/ \E period \in MapPeriods, func \in Funcs, include_file_info \in BOOLEAN,
          no_files_error \in BOOLEAN :
           Map("A", period, func, include_file_info, no_files_error)
    \/ \E period \in MapPeriods, func \in Funcs, include_file_info \in BOOLEAN,
          no_files_error \in BOOLEAN :
           MapContent("A", period, func, <<>>, include_file_info, no_files_error)
    \/ \E func \in Funcs, include_file_info \in BOOLEAN :
           MapContent("A", ShortPeriod, func, <<"O">>, include_file_info, TRUE)
    \/ \E c \in 1..2 : WorkerTask(c)
    \/ MapCollect
    \/ MapReturn

SpecMap == InitMap /\ [][NextMap]_vars

\* the calls that read and write the cache, on one dataset of daily files
CacheListing ==
    <<FillTokens(TplDaily, Day(12, 0, 0), Day(12, 0, 0), <<"A">>),
      FillTokens(TplDaily, Day(13, 0, 0), Day(13, 0, 0), <<"A">>)>>

CachePeriods == {<<Day(12, 0, 0), Day(13, 0, 0)>>, <<Day(13, 0, 0), Day(15, 0, 0)>>}

InitCache ==
    \E config \in {One(TplDaily, ByName)} : Construct(config) /\ fs = CacheListing

NextCache ==
    \/ \E d \in Datasets, filename \in Range(CacheListing) :
           RetrieveTimeCoverage(d, filename)
    \/ \E d \in Datasets, period \in CachePeriods, sort \in BOOLEAN :
           FindFiles(d, period, sort, FALSE)
    \/ \E d \in Datasets, timestamp \in FindTimes : FindFile(d, timestamp)
    \/ FindFileTest
    \/ FindFileBody
    \/ \E d \in Datasets, period \in CachePeriods :
           Map(d, period, "resolve", TRUE, TRUE)
    \/ WorkerTask(1)
    \/ MapCollect
    \/ MapReturn
    \/ \E d \in Datasets : \E stored \in CacheFiles(d) : LoadTimeCoverages(d, stored)
    \/ Return

SpecCache == InitCache /\ [][NextCache]_vars

\* a dataset of one file with an explicit time coverage
InitExplicit ==
    \E config \in ExplicitConfigurations :
        Construct(config) /\ fs = <<PathOf(config.files["A"])>>

NextExplicit ==
    \/ \E d \in Datasets : \E filename \in ExplicitPaths(d) :
           RetrieveTimeCoverage(d, filename)
    \/ \E d \in Datasets, retrieve_method \in {"filename", "content"} :
           \E filename \in ExplicitPaths(d) :
               RetrieveTimeCoverageWith(d, filename, retrieve_method)
    \/ \E d \in Datasets : \E stored \in ContentCacheFiles(d) :
           LoadTimeCoverages(d, stored)
    \/ Return

SpecExplicit == InitExplicit /\ [][NextExplicit]_vars

\* names that the template does not match, asked by name and by content
InitNoMatch ==
    \E config \in {One(TplDaily, ByName)} : Construct(config) /\ fs \in FullListings(config)

NoMatchPaths(d) == TreeOf(files[d], NameOf(d)) \cup {NoMatch}

NextNoMatch ==
    \/ \E d \in Datasets, value \in BOOLEAN : SetContinuous(d, value)
    \/ \E d \in Datasets : \E filename \in NoMatchPaths(d) :
           RetrieveTimeCoverage(d, filename)
    \/ \E d \in Datasets, retrieve_method \in {"filename", "content"} :
           \E filename \in NoMatchPaths(d) :
               RetrieveTimeCoverageWith(d, filename, retrieve_method)
    \/ Return

SpecNoMatch == InitNoMatch /\ [][NextNoMatch]_vars

\* a dataset constructed with times_cache, used, and the exit of the process
InitAtExit ==
    \E config \in {One(TplFlat, ByName)} : Construct(config) /\ fs \in FullListings(config)

NextAtExit ==
    \/ \E d \in Datasets : \E stored \in AtExitFiles(d) : InitTimesCache(d, stored)
    \/ \E d \in Datasets : \E filename \in TreeOf(files[d], NameOf(d)) :
           InUse /\ RetrieveTimeCoverage(d, filename)
    \/ \E padded \in BOOLEAN : Exit(padded)
    \/ Return

SpecAtExit == InitAtExit /\ [][NextAtExit]_vars

\* two datasets of one template with {name}, A constructed before B, each
\* with a file of its name
NameListing ==
    <<FillTokens(TplNamed, Day(12, 0, 0), Day(12, 0, 0), NameOf("A")),
      FillTokens(TplNamed, Day(12, 0, 0), Day(12, 0, 0), NameOf("B"))>>

InitName ==
    /\ Construct([files |-> ("A" :> TplNamed @@ "B" :> TplNamed),
                  time_coverage |-> ("A" :> ByContent @@ "B" :> ByContent)])
    /\ fs = NameListing

NextName ==
    \/ \E d \in Datasets, value \in {NameOf("A"), NameOf("B")} : SetName(d, value)
    \/ \E d \in Datasets, sort \in BOOLEAN, no_files_error \in BOOLEAN :
           FindFiles(d, <<Day(12, 0, 0), Day(13, 0, 0)>>, sort, no_files_error)
    \/ \E d \in Datasets : GenerateFilename(d, Day(12, 0, 0))
    \/ Return

SpecName == InitName /\ [][NextName]_vars

\* the search over the dates of short and long periods: a template with the
\* day before the month, a template of files that cover several days, and
\* a template of daily files
SearchConfigurations ==
    {One(TplDayFirst, ByName), One(TplSpan, ByName), One(TplDaily, ByName)}

SearchListing(template) ==
    IF template = TplDayFirst
    THEN <<FillTokens(TplDayFirst, Day(12, 0, 0), Day(12, 0, 0), <<>>),
           FillTokens(TplDayFirst, Day(13, 0, 0), Day(13, 0, 0), <<>>)>>
    ELSE IF template = TplSpan
    THEN <<FillTokens(TplSpan, Day(12, 0, 0), Day(16, 0, 0), <<>>),
           FillTokens(TplSpan, Day(15, 0, 0), Day(16, 0, 0), <<>>)>>
    ELSE <<FillTokens(TplDaily, Day(12, 0, 0), Day(12, 0, 0), <<>>),
           FillTokens(TplDaily, Day(13, 0, 0), Day(13, 0, 0), <<>>),
           FillTokens(TplDaily, Day(14, 0, 0), Day(14, 0, 0), <<>>)>>

SearchPeriods ==
    {<<Day(12, 0, 0), Day(13, 0, 0)>>,
     <<Day(13, 0, 0), Day(14, 0, 0)>>,
     <<Day(14, 0, 0), Day(15, 0, 0)>>,
     <<Day(15, 0, 0), Day(15, 12, 0)>>,
     <<Day(12, 0, 0), DT(2017, 12, 13, 0, 0, 0, 0)>>}

InitSearch ==
    \E config \in SearchConfigurations :
        Construct(config) /\ fs = SearchListing(config.files["A"])

NextSearch ==
    \/ \E d \in Datasets, value \in BOOLEAN : SetContinuous(d, value)
    \/ \E d \in Datasets, period \in SearchPeriods, sort \in BOOLEAN,
          no_files_error \in BOOLEAN :
           FindFiles(d, period, sort, no_files_error)
    \/ Return

SpecSearch == InitSearch /\ [][NextSearch]_vars

\* a function decorated with mutable_cache(maxsize), and no dataset
InitMemo ==
    /\ Construct([files |-> <<>>, time_coverage |-> <<>>])
    /\ fs = <<>>

MemoSizes == {1, 2}

NextMemo ==
    \/ \E maxsize \in MemoSizes : Decorate(maxsize)
    \/ \E arg \in MemoArgs, clear \in Flags, no_cache \in Flags : MemoCall(arg, clear, no_cache)
    \/ \E i \in 1..MaxRunning, raised \in BOOLEAN : MemoReturn(i, raised)

SpecMemo == InitMemo /\ [][NextMemo]_vars

\* the cache of a dataset saved to a file and loaded from it
InitPersist == \E config \in PersistConfigurations : Construct(config) /\ fs = <<>>

NextPersist ==
    \/ \E d \in Datasets, value \in BOOLEAN : SetContinuous(d, value)
    \/ \E d \in Datasets : \E filename \in PersistPaths(d) :
           RetrieveTimeCoverage(d, filename)
    \/ \E d \in Datasets, padded \in BOOLEAN : SaveAndLoad(d, padded)
    \/ Return

SpecPersist == InitPersist /\ [][NextPersist]_vars
(***************************************************************************)
(* C1: round-trip naming                                                    *)
(***************************************************************************)
\* the rank of the unit of a placeholder, from the year (1) to the millisecond (7)
UnitRank(name) ==
    CASE name \in {"year", "year2"} -> 1
      [] name = "month" -> 2
      [] name \in {"day", "doy"} -> 3
      [] name = "hour" -> 4
      [] name = "minute" -> 5
      [] name = "second" -> 6
      [] name = "millisecond" -> 7
      [] OTHER -> 0

\* the finest unit among the start placeholders of a template, 0 without any
Granularity(template) ==
    LET ranks == {UnitRank(template[i].v) :
                     i \in {k \in 1..Len(template) : template[k].k = "ph"}} \cup {0}
    IN  CHOOSE r \in ranks : \A q \in ranks : q <= r

\* T with every unit finer than the rank g set to its least value
TruncatedTo(T, g) ==
    DT(T.year,
       IF g >= 2 THEN T.month ELSE 1,
       IF g >= 3 THEN T.day ELSE 1,
       IF g >= 4 THEN T.hour ELSE 0,
       IF g >= 5 THEN T.minute ELSE 0,
       IF g >= 6 THEN T.second ELSE 0,
       IF g >= 7 THEN (T.microsecond \div 1000) * 1000 ELSE 0)

\* C1 as stated: in the mode "filename", for every template with time
\* placeholders and every timestamp T, the coverage retrieved of the filename
\* generated for T starts at T truncated to the granularity of the template
C1_RoundTrip ==
    (/\ ret.op = "retrieve_time_coverage"
     /\ time_coverage[ret.d].mode = "filename"
     /\ Granularity(files[ret.d]) > 0)
    => \A T \in Times :
          (/\ generate_filename(files[ret.d], T, T, NameOf(ret.d)).err = "none"
           /\ generate_filename(files[ret.d], T, T, NameOf(ret.d)).val = ret.filename)
          => /\ ret.err = "none"
             /\ ret.val[1] = TruncatedTo(T, Granularity(files[ret.d]))

\* the round trip of the template with {end_millisecond} ends in a TypeError
C1_EndMillisecondFails ==
    /\ ret.op = "retrieve_time_coverage"
    /\ files[ret.d] = TplEndMs
    /\ ret.filename = generate_filename(TplEndMs, Day(12, 0, 0), Day(12, 0, 0), <<>>).val
    /\ ret.err = "TypeError"

(***************************************************************************)
(* C2: find_files yields only files that overlap the period                 *)
(***************************************************************************)
\* C2: every pair find_files yields has an interval with file.start < end and
\* start < file.end, so a file that only touches the period is never yielded
C2_YieldedOverlap ==
    ret.op = "find_files" =>
        \A i \in 1..Len(ret.yielded) :
            /\ DtLess(ret.yielded[i][2][1], ret.end)
            /\ DtLess(ret.start, ret.yielded[i][2][2])

\* a search that yields a file and passes over a file on disk whose coverage
\* ends where the period starts or starts where the period ends
C2_TouchingPassedOver ==
    /\ ret.op = "find_files"
    /\ Len(ret.yielded) >= 1
    /\ \E f \in DOMAIN time_coverages_cache[ret.d] :
          /\ IsFile(fs, f)
          /\ \/ time_coverages_cache[ret.d][f][2] = ret.start
             \/ time_coverages_cache[ret.d][f][1] = ret.end
          /\ DtLess(time_coverages_cache[ret.d][f][1], time_coverages_cache[ret.d][f][2])
          /\ \A i \in 1..Len(ret.yielded) : ret.yielded[i][1] # f

CoverageNow(d, f) ==
    retrieve_time_coverage(Self(d), time_coverages_cache[d], parse_count[d], fs, f)

OverlapsPeriod(d, f, start, end) ==
    /\ CoverageNow(d, f).err = "none"
    /\ DtLess(CoverageNow(d, f).val[1], end)
    /\ DtLess(start, CoverageNow(d, f).val[2])

\* the files on disk that belong to the dataset: the single file, or the
\* files the regular expression of the template matches
DatasetFiles(d) ==
    IF SingleFile(files[d]) THEN {f \in Range(fs) : f = PathOf(files[d])}
    ELSE IF CompileRegex(files[d], placeholder_name).err # "none" THEN {}
    ELSE {f \in Range(fs) : RegexMatch(CompileRegex(files[d], placeholder_name).val, f)}

Searchable(d) ==
    IF SingleFile(files[d]) THEN IsFile(fs, PathOf(files[d]))
    ELSE ~UnknownPlaceholder(files[d]) /\ DayTemplate(files[d]) # {}

\* the candidates on the search paths of the period
Located(d, start, end) ==
    IF SingleFile(files[d]) THEN {PathOf(files[d])}
    ELSE UNION {Range(_get_all_files(fs,
                    _get_files_path(fs, files[d], NameOf(d),
                                    SearchDates(start, end)[i]).val,
                    CompileRegex(files[d], NameOf(d)).val)) :
                i \in 1..Len(SearchDates(start, end))}

PlaceOf(f) ==
    IF ~IsFile(fs, f) THEN 0 ELSE CHOOSE i \in 1..Len(fs) : fs[i] = f

\* C5: with sort=True the files are yielded in non-decreasing order of the
\* start of their interval, whatever the order of the listing
C5_SortedByStart ==
    (ret.op = "find_files" /\ ret.sort) =>
        \A i \in 1..Len(ret.yielded) : \A j \in i..Len(ret.yielded) :
            ~DtLess(ret.yielded[j][2][1], ret.yielded[i][2][1])

\* a sorted search whose first file starts earlier than its second and is
\* listed after it on the disk
C5_ListedOutOfOrder ==
    /\ ret.op = "find_files"
    /\ ret.sort
    /\ Len(ret.yielded) >= 2
    /\ DtLess(ret.yielded[1][2][1], ret.yielded[2][2][1])
    /\ PlaceOf(ret.yielded[1][1]) > PlaceOf(ret.yielded[2][1])

(***************************************************************************)
(* C6: the extension of a continuous dataset                                *)
(***************************************************************************)
HasEndPlaceholder(template) ==
    \E i \in 1..Len(template) : template[i].k = "ph" /\ template[i].v \in EndNames

\* "/a/2017/11/12.n"
Daily12 == FillTokens(TplDaily, Day(12, 0, 0), Day(12, 0, 0), <<>>)

C7_NotExtendedAfterSwitch ==
    (/\ ret.op = "retrieve_time_coverage"
     /\ files[ret.d] = TplDaily
     /\ time_coverage[ret.d].mode = "filename"
     /\ ret.filename = Daily12
     /\ ~continuous[ret.d])
    => /\ ret.err = "none"
       /\ ret.val = <<Day(12, 0, 0), Day(12, 0, 0)>>

\* the cached interval [11-12, 11-13) returned while continuous is False
C7_StaleCoverage ==
    /\ ret.op = "retrieve_time_coverage"
    /\ files[ret.d] = TplDaily
    /\ time_coverage[ret.d].mode = "filename"
    /\ ret.filename = Daily12
    /\ ~continuous[ret.d]
    /\ ret.hit
    /\ ret.val = <<Day(12, 0, 0), Day(13, 0, 0)>>

(***************************************************************************)
(* C8: start <= end                                                         *)
(***************************************************************************)
\* C8 as stated: every interval retrieve_time_coverage returns in the mode
\* "filename" has start <= end
C8_StartNotAfterEnd ==
    (/\ ret.op = "retrieve_time_coverage"
     /\ time_coverage[ret.d].mode = "filename"
     /\ ret.err = "none")
    => DtLeq(ret.val[1], ret.val[2])

\* "/a/20171130-02.n" of the template with {end_day}: the interval from
\* 2017-11-30 to 2017-11-03
C8_EndBeforeStart ==
    /\ ret.op = "retrieve_time_coverage"
    /\ files[ret.d] = TplSpan
    /\ ret.err = "none"
    /\ ret.val = <<Day(30, 0, 0), Day(3, 0, 0)>>

(***************************************************************************)
(* C9: find_overlapping_files                                               *)
(***************************************************************************)
\* the files of d that find_files locates in [start, end), sorted by start
LocatedIn(d, start, end) ==
    find_files(Self(d), time_coverages_cache[d], parse_count[d], fs,
               start, end, TRUE, FALSE).yielded

\* the names of the files of B whose interval in whole seconds, widened by gap
\* on both ends, overlaps the interval a under the half-open rule
Partners(a, B, gap) ==
    LET hits == SelectSeq(B, LAMBDA b :
                    /\ Timestamp(b[2][1]) - gap < Timestamp(a[2][2])
                    /\ Timestamp(a[2][1]) < Timestamp(b[2][2]) + gap)
    IN  [k \in 1..Len(hits) |-> hits[k][1]]

GapOf(max_interval) ==
    IF max_interval = {} THEN 0 ELSE CHOOSE seconds \in max_interval : TRUE

\* C9 as stated: one pair per file of A located in the period, with exactly
\* the located files of B whose widened interval overlaps the file of A
C9_OnePairPerFile ==
    ret.op = "find_overlapping_files" =>
        /\ ret.err = "none"
        /\ Len(ret.yielded) = Len(LocatedIn(ret.d, ret.start, ret.end))
        /\ \A i \in 1..Len(ret.yielded) :
              /\ ret.yielded[i][1] = LocatedIn(ret.d, ret.start, ret.end)[i][1]
              /\ ret.yielded[i][2] =
                    Partners(LocatedIn(ret.d, ret.start, ret.end)[i],
                             LocatedIn(ret.other, ret.start, ret.end),
                             GapOf(ret.max_interval))

\* C9 amended: with the period widened by max_interval on both ends, the call
\* raises NoFilesError and yields nothing when either dataset has no file
\* located in the widened period; otherwise it yields, in the order of their
\* starts, one pair per file of A located in the widened period, with the
\* files of B located in the widened period whose widened interval overlaps
\* the interval of the file of A, in the order of their starts
C9_OnePairPerLocatedFile ==
    ret.op = "find_overlapping_files" =>
        LET from == Widened(ret.start, ret.end, ret.max_interval)[1]
            to == Widened(ret.start, ret.end, ret.max_interval)[2]
        IN  IF \/ LocatedIn(ret.d, from, to) = <<>>
               \/ LocatedIn(ret.other, from, to) = <<>>
            THEN ret.err = "NoFilesError" /\ ret.yielded = <<>>
            ELSE /\ ret.err = "none"
                 /\ Len(ret.yielded) = Len(LocatedIn(ret.d, from, to))
                 /\ \A i \in 1..Len(ret.yielded) :
                       /\ ret.yielded[i][1] = LocatedIn(ret.d, from, to)[i][1]
                       /\ ret.yielded[i][2] =
                             Partners(LocatedIn(ret.d, from, to)[i],
                                      LocatedIn(ret.other, from, to),
                                      GapOf(ret.max_interval))

\* the example: A = [10:00, 10:05), B1 = [10:04, 10:06), B2 = [10:20, 10:25)
\* and no max_interval yield (A, [B1]) only
C9_Example ==
    /\ ret.op = "find_overlapping_files"
    /\ ret.d = "A"
    /\ ret.max_interval = {}
    /\ IsFile(fs, FillTokens(TplGranule("q"), Day(12, 10, 20), Day(12, 10, 25), <<>>))
    /\ ret.yielded =
          <<<<FillTokens(TplGranule("p"), Day(12, 10, 0), Day(12, 10, 5), <<>>),
              <<FillTokens(TplGranule("q"), Day(12, 10, 4), Day(12, 10, 6), <<>>)>>>>>>

(***************************************************************************)
(* C10: a template with an unknown placeholder                              *)
(***************************************************************************)
\* C10 as stated: a template with an unrecognized placeholder is rejected
\* when it is set, so no dataset has one and no later use raises for it
C10_RejectedWhenSet ==
    /\ \A d \in Datasets : ~UnknownPlaceholder(files[d])
    /\ ret.op \in {"find_files", "retrieve_time_coverage", "generate_filename"}
          => ret.err # "KeyError"

\* C10 amended: the dataset is constructed, and every use that formats the
\* template raises KeyError: find_files before it yields, generate_filename,
\* and retrieve_time_coverage in the mode "filename"; in the mode "content"
\* retrieve_time_coverage does not read the template and raises no KeyError
C10_KeyErrorAtUse ==
    \A d \in Datasets :
        (UnknownPlaceholder(files[d]) /\ ret.op # "idle" /\ ret.d = d) =>
            /\ ret.op = "find_files" => ret.err = "KeyError" /\ ret.yielded = <<>>
            /\ ret.op = "generate_filename" => ret.err = "KeyError"
            /\ ret.op = "retrieve_time_coverage" =>
                  (ret.err = "KeyError") = (time_coverage[d].mode = "filename")

\* find_files of a constructed dataset with the template "/a/{year}/{foo}.n"
\* ended by KeyError
C10_FindFilesKeyError ==
    /\ ret.op = "find_files"
    /\ files[ret.d] = TplUnknown
    /\ ret.err = "KeyError"

(***************************************************************************)
(* C11: only whole paths match the template                                 *)
(***************************************************************************)
\* the whole path, from its first to its last character, matches the regex
\* of the template
WholeMatch(template, name, path) ==
    /\ ~UnknownPlaceholder(template)
    /\ MatchFrom(RegexTokens(template, name) \o <<RChr("$")>>, 1, path \o <<"$">>, 1) # {}

\* C11 as stated: find_files yields only paths that match the template as a
\* whole, and in the mode "filename" retrieve_time_coverage returns no interval
\* for a path that does not match it as a whole
C11_WholePathOnly ==
    /\ (ret.op = "find_files" /\ ret.err = "none")
       => \A i \in 1..Len(ret.yielded) :
             WholeMatch(files[ret.d], NameOf(ret.d), ret.yielded[i][1])
    /\ (/\ ret.op = "retrieve_time_coverage"
        /\ time_coverage[ret.d].mode = "filename"
        /\ ~WholeMatch(files[ret.d], NameOf(ret.d), ret.filename))
       => ret.err # "none"

\* find_files yields "/a/20171112.nx" for the template "/a/{year}{month}{day}.n"
C11_TrailingAccepted ==
    /\ ret.op = "find_files"
    /\ ret.err = "none"
    /\ files[ret.d] = TplFlat
    /\ \E i \in 1..Len(ret.yielded) :
          /\ ret.yielded[i][1] = FillTokens(TplFlat \o <<L("x")>>, Day(12, 0, 0), Day(12, 0, 0), <<>>)
          /\ ret.yielded[i][2][1] = Day(12, 0, 0)

\* retrieve_time_coverage resolves "/b/a/20171112.n" to 12 November
C11_PrecededResolved ==
    /\ ret.op = "retrieve_time_coverage"
    /\ files[ret.d] = TplFlat
    /\ ret.filename \in Preceded(ret.d)
    /\ ret.err = "none"
    /\ ret.val[1] = Day(12, 0, 0)

(***************************************************************************)
(* C12: two-digit years                                                     *)
(***************************************************************************)
\* the index of the first character of the placeholder in a name of the
\* template (a template of placeholders of time and literal characters)
RECURSIVE OffsetOf(_, _)
OffsetOf(template, placeholder) ==
    IF Head(template) = P(placeholder) THEN 1
    ELSE (IF Head(template).k = "ph" THEN PlaceholderWidth(Head(template).v) ELSE 1)
         + OffsetOf(Tail(template), placeholder)

\* the number a name carries in the place of the placeholder
ValueAt(template, placeholder, path) ==
    IntOf(SubSeq(path, OffsetOf(template, placeholder),
                 OffsetOf(template, placeholder) + PlaceholderWidth(placeholder) - 1))

\* the year the claim gives the two-digit value v
CenturyOf(v) == IF v < 65 THEN 2000 + v ELSE 1900 + v

\* C12: a name resolved in the mode "filename" starts in the year 2000 + v for
\* the value v < 65 of {year2} and in 1900 + v for v >= 65, and ends in the
\* year that rule gives the value of {end_year2}, unless the name's end is 31
\* December and the end was moved to the next day
C12_Year2Rule ==
    (/\ ret.op = "retrieve_time_coverage"
     /\ time_coverage[ret.d].mode = "filename"
     /\ ret.err = "none"
     /\ InSeq(P("year2"), files[ret.d]))
    => /\ ret.val[1].year = CenturyOf(ValueAt(files[ret.d], "year2", ret.filename))
       /\ (/\ InSeq(P("end_year2"), files[ret.d])
           /\ <<ValueAt(files[ret.d], "end_month", ret.filename),
                ValueAt(files[ret.d], "end_day", ret.filename)>> # <<12, 31>>)
          => ret.val[2].year = CenturyOf(ValueAt(files[ret.d], "end_year2", ret.filename))

\* "/a/700301-580302.n" resolves to 1970-03-01 .. 2058-03-02
C12_SeventyAndFiftyEight ==
    /\ ret.op = "retrieve_time_coverage"
    /\ files[ret.d] = TplYear2Span
    /\ ret.filename = <<"/", "a", "/", "7", "0", "0", "3", "0", "1", "-",
                        "5", "8", "0", "3", "0", "2", ".", "n">>
    /\ ret.err = "none"
    /\ ret.val = <<DT(1970, 3, 1, 0, 0, 0, 0), DT(2058, 3, 2, 0, 0, 0, 0)>>

(***************************************************************************)
(* C13: the unit of the extension                                           *)
(***************************************************************************)
\* one unit of the rank g: day, hour, minute, second, millisecond
UnitOf(g) ==
    CASE g = 3 -> TD(1, 0, 0)
      [] g = 4 -> TD(0, 3600, 0)
      [] g = 5 -> TD(0, 60, 0)
      [] g = 6 -> TD(0, 1, 0)
      [] g = 7 -> TD(0, 0, 1000)

\* C13 as stated: a name parsed by a continuous dataset to start = end gets
\* the end start + one unit of the finest placeholder of the template, one
\* millisecond for a template with {millisecond}
C13_FinestUnit ==
    (/\ ret.op = "retrieve_time_coverage"
     /\ ~ret.hit
     /\ ret.err = "none"
     /\ time_coverage[ret.d].mode = "filename"
     /\ ~HasEndPlaceholder(files[ret.d])
     /\ continuous[ret.d]
     /\ Granularity(files[ret.d]) >= 3)
    => ret.val[2] = DtAdd(ret.val[1], UnitOf(Granularity(files[ret.d])))

\* the same for the templates without {millisecond}
C13_FinestUnitButMillisecond ==
    (/\ ret.op = "retrieve_time_coverage"
     /\ ~ret.hit
     /\ ret.err = "none"
     /\ time_coverage[ret.d].mode = "filename"
     /\ ~HasEndPlaceholder(files[ret.d])
     /\ continuous[ret.d]
     /\ Granularity(files[ret.d]) \in 3..6)
    => ret.val[2] = DtAdd(ret.val[1], UnitOf(Granularity(files[ret.d])))

\* "/a/20171112100030123.n" of the template with {second}{millisecond} ends
\* one second after its start 10:00:30.123
C13_MillisecondBySecond ==
    /\ ret.op = "retrieve_time_coverage"
    /\ ~ret.hit
    /\ files[ret.d] = TplMillis
    /\ continuous[ret.d]
    /\ ret.err = "none"
    /\ ret.val = <<DT(2017, 11, 12, 10, 0, 30, 123000), DT(2017, 11, 12, 10, 0, 31, 123000)>>

\* "/a/20171112-123.n" of the template with {day} and {millisecond} ends one
\* day after its start
C13_MillisecondByDay ==
    /\ ret.op = "retrieve_time_coverage"
    /\ ~ret.hit
    /\ files[ret.d] = TplDayMillis
    /\ continuous[ret.d]
    /\ ret.err = "none"
    /\ ret.val = <<DT(2017, 11, 12, 0, 0, 0, 123000), DT(2017, 11, 13, 0, 0, 0, 123000)>>

(***************************************************************************)
(* C14: find_file returns the covering or the closest candidate             *)
(***************************************************************************)
\* the candidates: the files that match the template under the deepest
\* directory, from that of the generated name upward, that holds any
RECURSIVE CandidatesFrom(_, _, _)
CandidatesFrom(listing, regex, path) ==
    LET up    == RSplit(path)
        found == _get_all_files(listing, up, regex)
    IN  IF found # <<>> THEN found
        ELSE IF up = path \/ up = <<>> THEN <<>>
        ELSE CandidatesFrom(listing, regex, up)

CandidatesOf(d, timestamp) ==
    CandidatesFrom(fs, RegexTokens(files[d], NameOf(d)),
                   FillTokens(files[d], timestamp, timestamp, NameOf(d)))

\* the interval the name of a file gives
NamedCoverage(d, file) == ParseFilename(files[d], NameOf(d), continuous[d], file).val

\* the file is a candidate that contains the timestamp if any candidate does,
\* and else one of the least distance to the timestamp
CoveringOrClosest(d, timestamp, file) ==
    LET cands == CandidatesOf(d, timestamp)
    IN  /\ InSeq(file, cands)
        /\ IF \E i \in 1..Len(cands) : Contains(NamedCoverage(d, cands[i]), timestamp)
           THEN Contains(NamedCoverage(d, file), timestamp)
           ELSE \A i \in 1..Len(cands) :
                    ~TdLess(Distance(NamedCoverage(d, cands[i]), timestamp),
                            Distance(NamedCoverage(d, file), timestamp))

\* C14 as stated: find_file(timestamp) on a dataset of many files with
\* candidates returns a candidate that contains the timestamp if any does, and
\* else a candidate of the least distance min(|start - t|, |end - t|)
C14_CoveringOrClosest ==
    (/\ ret.op = "find_file"
     /\ ret.pc = "done"
     /\ ret.err = "none"
     /\ CandidatesOf(ret.d, ret.timestamp) # <<>>)
    => \E file \in ret.val : CoveringOrClosest(ret.d, ret.timestamp, file)

\* the same for the calls that find no file of the generated name
C14_CoveringOrClosestWhenSearched ==
    (/\ ret.op = "find_file"
     /\ ret.pc = "done"
     /\ ret.err = "none"
     /\ ~Exists(fs, FillTokens(files[ret.d], ret.timestamp, ret.timestamp, NameOf(ret.d)))
     /\ CandidatesOf(ret.d, ret.timestamp) # <<>>)
    => \E file \in ret.val : CoveringOrClosest(ret.d, ret.timestamp, file)

\* find_file("2017-11-12 20:00") returns 2017/11/12.n, which starts and ends
\* 20 hours before, while 2017/11/13.n is 4 hours away
C14_ExactNameNotClosest ==
    /\ ret.op = "find_file"
    /\ ret.pc = "done"
    /\ files[ret.d] = TplDaily
    /\ ~continuous[ret.d]
    /\ ret.timestamp = Day(12, 20, 0)
    /\ ret.val = {Daily12}
    /\ IsFile(fs, FillTokens(TplDaily, Day(13, 0, 0), Day(13, 0, 0), <<>>))

\* a search that widens: find_file("2017-11-14") returns 2017/11/13.n
C14_WidenedToClosest ==
    /\ ret.op = "find_file"
    /\ ret.pc = "done"
    /\ files[ret.d] = TplDaily
    /\ ret.timestamp = Day(14, 0, 0)
    /\ Len(ret.files) = 2
    /\ ret.val = {FillTokens(TplDaily, Day(13, 0, 0), Day(13, 0, 0), <<>>)}

(***************************************************************************)
(* C15: find_file terminates                                                *)
(***************************************************************************)
\* C15 as stated: every call of find_file comes to its end
C15_FindFileTerminates ==
    (ret.op = "find_file") ~> (ret.op = "find_file" /\ ret.pc = "done")

\* the same for the absolute template
C15_AbsoluteTerminates ==
    (ret.op = "find_file" /\ files[ret.d] = TplDaily)
        ~> (ret.op = "find_file" /\ ret.pc = "done")

\* the loop of find_file at the path "a" of the relative template, without
\* files: the path has no slash, so the next path is "a" again
C15_RelativeLoop ==
    /\ ret.op = "find_file"
    /\ ret.pc = "body"
    /\ files[ret.d] = TplRelative
    /\ ret.path = <<"a">>
    /\ RSplit(ret.path) = ret.path
    /\ _get_all_files(fs, ret.path, RegexTokens(files[ret.d], NameOf(ret.d))) = <<>>

\* the files find_files locates in the period of the map call in progress
MapLocated ==
    find_files(Self(ret.d), time_coverages_cache[ret.d], parse_count[ret.d], fs,
               ret.period[1], ret.period[2], FALSE, FALSE).yielded

\* the tasks that have been run, in the order of the chunks
RECURSIVE Processed(_, _)
Processed(chunks, k) ==
    IF k > Len(chunks) THEN <<>>
    ELSE SubSeq(chunks[k].files, 1,
                IF chunks[k].err = "none" THEN chunks[k].next - 1 ELSE chunks[k].next)
         \o Processed(chunks, k + 1)

MapReturned == ret.op \in MapOps /\ ret.pc = "done" /\ ret.err = "none"

\* the item the call owes for a located file when the results are returned
ItemOf(file_info) ==
    IF ret.include_file_info
    THEN <<file_info[1], file_info[2], <<"value", file_info[1]>>>>
    ELSE <<"value", file_info[1]>>

C16_OutputReturnsNames ==
    /\ MapReturned
    /\ ret.op = "map_content"
    /\ ret.output # <<>>
    /\ ret.include_file_info
    /\ Len(ret.val) = 2
    /\ ret.val[1] = MapLocated[1][1]
    /\ Len(fs) = MapHours + 2

\* a map call over a period in which find_files locates no file has come to
\* its end: it has raised or returned, or it waits for ever
MapOverNoFiles ==
    /\ ret.op \in MapOps
    /\ ret.pc \in {"done", "hung"}
    /\ MapLocated = <<>>

\* C17 as stated: over a period without files map and map_content raise
\* NoFilesError when no_files_error is True, and return an empty list and
\* raise nothing when it is False
C17_NoFilesPolicy ==
    MapOverNoFiles =>
        /\ ret.pc = "done"
        /\ IF ret.no_files_error THEN ret.err = "NoFilesError"
           ELSE ret.err = "none" /\ ret.val = <<>>

\* a map call with no_files_error=False over a period without files never
\* returns
C17_NeverReturns ==
    /\ MapOverNoFiles
    /\ ret.op = "map"
    /\ ~ret.no_files_error
    /\ ret.pc = "hung"
    /\ ~ENABLED NextMap

\* a map_content call with no_files_error=False over a period without files
\* raised NoFilesError
C17_RaisedThoughNotAsked ==
    /\ MapOverNoFiles
    /\ ret.op = "map_content"
    /\ ~ret.no_files_error
    /\ ret.err = "NoFilesError"

\* no call over a period without files returns the empty list
C17_NeverEmptyList ==
    ret.op \in MapOps /\ ret.pc = "done" /\ ret.err = "none" => ret.val # <<>>

\* the function of the call in progress raises for the file
Raises(file_info) == file_info[2][1].hour = BoomHour(ret.func)

\* C18: when the function raises for a located file, the call does not return
\* a list, not even of the results of the other files: it ends with the
\* exception of the function, and no task was run twice
C18_ExceptionPropagates ==
    (/\ ret.op \in MapOps
     /\ ret.pc = "done"
     /\ \E i \in 1..Len(MapLocated) : Raises(MapLocated[i]))
    => /\ ret.err = "RuntimeError"
       /\ ret.val = <<>>
       /\ \A i, j \in 1..Len(Processed(pool, 1)) :
              i # j => Processed(pool, 1)[i] # Processed(pool, 1)[j]

\* the function raised in the second chunk after the ten tasks of the first
\* chunk had returned their results, and the call raised
C18_SecondChunkRaised ==
    /\ ret.op \in MapOps
    /\ ret.pc = "done"
    /\ ret.func = "boom10"
    /\ Len(pool) = 2
    /\ Len(pool[1].out) = ChunkSize
    /\ pool[2].err = "RuntimeError"
    /\ ret.err = "RuntimeError"
    /\ ret.val = <<>>

\* the names the tasks that chunk c has run asked their copy of the dataset for
WorkerWrites(c) ==
    {WorkerPath(pool[c].dataset.self, pool[c].files[i][2]) :
        i \in 1..(pool[c].next - 1)}

\* C19: the cache of the calling process holds only names of files that its
\* own find_files resolved, and the copy of a worker holds, besides the
\* entries it was sent with, only what its own tasks wrote
C19_WorkerWritesInvisible ==
    /\ \A d \in Datasets : DOMAIN time_coverages_cache[d] \subseteq Range(fs)
    /\ \A c \in DOMAIN pool :
           DOMAIN pool[c].dataset.cache
               \subseteq DOMAIN time_coverages_cache[ret.d] \cup
                         (IF ret.op = "map" /\ ret.func = "resolve"
                          THEN WorkerWrites(c) ELSE {})

\* a map over two chunks has returned; the tasks of both workers wrote into
\* their copies, neither copy holds a name the other worker resolved, and the
\* cache of the calling process holds none of them
C19_TwoWorkersWrote ==
    /\ MapReturned
    /\ ret.op = "map"
    /\ ret.func = "resolve"
    /\ Len(pool) = 2
    /\ WorkerWrites(1) # {} /\ WorkerWrites(2) # {}
    /\ WorkerWrites(1) \subseteq DOMAIN pool[1].dataset.cache
    /\ WorkerWrites(2) \subseteq DOMAIN pool[2].dataset.cache
    /\ WorkerWrites(1) \cap DOMAIN pool[2].dataset.cache = {}
    /\ WorkerWrites(2) \cap DOMAIN pool[1].dataset.cache = {}
    /\ (WorkerWrites(1) \cup WorkerWrites(2)) \cap DOMAIN time_coverages_cache["A"] = {}

\* every entry of the cache of d is still there after the step, with the
\* same interval
EntriesKept(d) ==
    \A f \in DOMAIN time_coverages_cache[d] :
        /\ f \in DOMAIN time_coverages_cache'[d]
        /\ time_coverages_cache'[d][f] = time_coverages_cache[d][f]

\* C20 as stated: no step of retrieve_time_coverage, find_files, find_file,
\* map or load_time_coverages removes an entry of the cache or changes its
\* interval
C20_CacheOnlyGrows == [][\A d \in Datasets : EntriesKept(d)]_vars

\* C20: no step removes an entry of the cache; the steps of
\* retrieve_time_coverage, find_files, find_file and map leave the interval
\* of every entry as it is, and load_time_coverages gives every path the file
\* names the interval of the file, and leaves the other entries as they are
C20_CacheGrowsAndOnlyLoadReplaces ==
    [][\A d \in Datasets :
          IF ret'.op = "load_time_coverages" /\ ret = Idle /\ ret'.d = d
          THEN /\ DOMAIN time_coverages_cache[d] \subseteq DOMAIN time_coverages_cache'[d]
               /\ \A f \in DOMAIN time_coverages_cache'[d] :
                      time_coverages_cache'[d][f] =
                          IF f \in DOMAIN ret'.loaded THEN ret'.loaded[f]
                          ELSE time_coverages_cache[d][f]
          ELSE EntriesKept(d)]_vars

\* a load_time_coverages call has replaced the interval of a path that was in
\* the cache by another
C20_LoadReplacedEntry ==
    /\ ret.op = "load_time_coverages"
    /\ ret.err = "none"
    /\ ret.replaced # {}
    /\ \A f \in ret.replaced : time_coverages_cache[ret.d][f] = ret.loaded[f]

\* a map call has returned and the cache holds the files it resolved
C20_MapKeptEntries ==
    /\ ret.op = "map"
    /\ ret.pc = "done"
    /\ ret.err = "none"
    /\ DOMAIN time_coverages_cache[ret.d] # {}
    /\ pool # NoPool

\* a call of retrieve_time_coverage(filename) on a dataset with an explicit
\* time coverage
ExplicitCall ==
    /\ ret = Idle
    /\ ret'.op = "retrieve_time_coverage"
    /\ "retrieve_method" \notin DOMAIN ret'
    /\ time_coverage[ret'.d].mode = "explicit"

\* C21 as stated: with an explicit time coverage retrieve_time_coverage(path)
\* returns the configured pair for every path and leaves the cache unchanged
C21_ExplicitPairAlways ==
    [][ExplicitCall =>
          /\ ret'.err = "none"
          /\ ret'.val = time_coverage[ret'.d].times
          /\ time_coverages_cache' = time_coverages_cache]_vars

\* C21: with an explicit time coverage retrieve_time_coverage(path) leaves the
\* cache unchanged and returns the configured pair for every path that is
\* not in the cache, and the cached interval for a path that is
C21_ExplicitPairUnlessCached ==
    [][ExplicitCall =>
          /\ ret'.err = "none"
          /\ ret'.val = IF ret'.filename \in DOMAIN time_coverages_cache[ret'.d]
                        THEN time_coverages_cache[ret'.d][ret'.filename]
                        ELSE time_coverage[ret'.d].times
          /\ time_coverages_cache' = time_coverages_cache]_vars

\* a path that is not in the cache got the configured pair, and the cache
\* holds no entry for it
C21_ConfiguredPairNotStored ==
    /\ ret.op = "retrieve_time_coverage"
    /\ "retrieve_method" \notin DOMAIN ret
    /\ time_coverage[ret.d].mode = "explicit"
    /\ ~ret.hit
    /\ ret.val = time_coverage[ret.d].times
    /\ ret.filename \notin DOMAIN time_coverages_cache[ret.d]

\* a path that is in the cache got its cached interval, which is not the
\* configured pair
C21_CachedPairReturned ==
    /\ ret.op = "retrieve_time_coverage"
    /\ "retrieve_method" \notin DOMAIN ret
    /\ time_coverage[ret.d].mode = "explicit"
    /\ ret.hit
    /\ ret.val # time_coverage[ret.d].times

\* C22 as stated: a cache that is saved and loaded into a fresh Dataset comes
\* back without an error, with the same paths and the same start and end
\* of every path
C22_RoundTrip ==
    ret.op = "save_and_load" =>
        ret.err = "none" /\ ret.loaded = time_coverages_cache[ret.d]

\* the round trip holds when every year of the cache has four digits, or
\* the platform pads the year
C22_RoundTripOfFourDigitYears ==
    (/\ ret.op = "save_and_load"
     /\ \/ ret.padded
        \/ \A f \in DOMAIN time_coverages_cache[ret.d] :
               \A k \in 1..2 : time_coverages_cache[ret.d][f][k].year >= 1000)
    => ret.err = "none" /\ ret.loaded = time_coverages_cache[ret.d]

\* the cache held a file of the year 999 and one of 2017; the load of the
\* saved file raised ValueError and the fresh Dataset holds no path
C22_NothingLoaded ==
    /\ ret.op = "save_and_load"
    /\ Cardinality(DOMAIN time_coverages_cache[ret.d]) >= 2
    /\ \E f \in DOMAIN time_coverages_cache[ret.d] :
           time_coverages_cache[ret.d][f][1].year = 999
    /\ ret.err = "ValueError"
    /\ ret.loaded = EmptyDict

\* a cache with milliseconds came back as it was
C22_MillisecondsKept ==
    /\ ret.op = "save_and_load"
    /\ ret.err = "none"
    /\ \E f \in DOMAIN ret.loaded : ret.loaded[f][1].microsecond = 123000
    /\ ret.loaded = time_coverages_cache[ret.d]

\* the files the search of the call yields in the order they are found
FoundOrder ==
    find_files(Self(ret.d), time_coverages_cache[ret.d], parse_count[ret.d], fs,
               ret.start, ret.end, FALSE, FALSE).yielded

SortedCall == ret.op = "find_files" /\ ret.sort /\ ret.err = "none"

\* C23 as stated: with sort=True no file is yielded before a file of an
\* earlier start, and no two files yielded one after the other have the same
\* start
C23_StrictlyAscending ==
    SortedCall =>
        \A i \in 1..(Len(ret.yielded) - 1) :
            DtLess(ret.yielded[i][2][1], ret.yielded[i + 1][2][1])

\* C23: with sort=True the starts of the yielded files never descend, and the
\* files of one start are yielded in the order in which they are found
C23_AscendingAndStable ==
    SortedCall =>
        /\ \A i \in 1..(Len(ret.yielded) - 1) :
               ~DtLess(ret.yielded[i + 1][2][1], ret.yielded[i][2][1])
        /\ \A i \in 1..Len(ret.yielded) :
               SelectSeq(ret.yielded, LAMBDA y : y[2][1] = ret.yielded[i][2][1])
               = SelectSeq(FoundOrder, LAMBDA y : y[2][1] = ret.yielded[i][2][1])
        /\ Len(ret.yielded) = Len(FoundOrder)

\* two files of the same start were yielded one after the other, and a
\* third of another start was found between them or around them
C23_EqualStarts ==
    /\ SortedCall
    /\ \E i \in 1..(Len(ret.yielded) - 1) :
           /\ ret.yielded[i][2][1] = ret.yielded[i + 1][2][1]
           /\ ret.yielded[i][1] # ret.yielded[i + 1][1]

(***************************************************************************)
(* mutable_cache: rotation and NO_CACHE                                     *)
(***************************************************************************)
IsDecorated(m) == m # NoMemo

\* C24: the cache of a function decorated with mutable_cache(maxsize) never
\* holds more than maxsize results, and the key list and the cache always
\* hold the same set of keys
C24_RotationKeepsMaxsize ==
    IsDecorated(memo) =>
        /\ Cardinality(DOMAIN memo.cache) <= memo.maxsize
        /\ Range(memo.keylist) = DOMAIN memo.cache

\* the rotation has stopped: the first key of the list is not in the cache,
\* and the cache holds more than maxsize results
C24_RotationStopped ==
    /\ IsDecorated(memo)
    /\ Len(memo.keylist) > memo.maxsize
    /\ memo.keylist[1] \notin DOMAIN memo.cache
    /\ Cardinality(DOMAIN memo.cache) > memo.maxsize

\* a step in which the decorated function is called
CallStep == IsDecorated(memo) /\ memo' # memo /\ memo'.out.kind \in {"called", "hit"}

\* a step in which a call made with NO_CACHE=True comes back from the function
NoCacheReturnStep ==
    /\ IsDecorated(memo) /\ memo' # memo
    /\ memo'.out.kind = "returned" /\ ~memo'.out.store

LastCall(m) == m.running[Len(m.running)]

\* C25: a call with NO_CACHE=True always invokes the function, does not pass
\* NO_CACHE to it, and leaves the cache and the key list unchanged
C25_NoCacheLeavesCache ==
    [][/\ (CallStep /\ memo'.out.no_cache = "True") =>
              /\ memo'.out.kind = "called"
              /\ Len(memo'.running) = Len(memo.running) + 1
              /\ "NO_CACHE" \notin LastCall(memo').kwds
              /\ memo'.cache = memo.cache /\ memo'.keylist = memo.keylist
       /\ NoCacheReturnStep =>
              memo'.cache = memo.cache /\ memo'.keylist = memo.keylist]_vars

\* C25, amended: ... and leaves the cache and the key list unchanged unless
\* CLEAR_CACHE is given and true in the same call, which empties both
C25_NoCacheLeavesCacheUnlessCleared ==
    [][/\ (CallStep /\ memo'.out.no_cache = "True") =>
              /\ memo'.out.kind = "called"
              /\ Len(memo'.running) = Len(memo.running) + 1
              /\ "NO_CACHE" \notin LastCall(memo').kwds
              /\ IF memo'.out.clear = "True"
                 THEN memo'.cache = EmptyDict /\ memo'.keylist = <<>>
                 ELSE memo'.cache = memo.cache /\ memo'.keylist = memo.keylist
       /\ NoCacheReturnStep =>
              memo'.cache = memo.cache /\ memo'.keylist = memo.keylist]_vars

\* the function was called with NO_CACHE=True although its result is cached
C25_CalledAlthoughCached ==
    /\ IsDecorated(memo)
    /\ memo.out.kind = "called" /\ memo.out.no_cache = "True" /\ memo.out.clear # "True"
    /\ Len(memo.running) > 0
    /\ ~LastCall(memo).store
    /\ LastCall(memo).key \in DOMAIN memo.cache

(***************************************************************************)
(* C26: a path that the template does not match                             *)
(***************************************************************************)
\* regex.findall(filename) finds nothing
NothingFound(d, filename) ==
    /\ ~SingleFile(files[d])
    /\ CompileRegex(files[d], placeholder_name).err = "none"
    /\ SearchFrom(CompileRegex(files[d], placeholder_name).val, filename, 1) = {}

\* the call that returned was made in the mode "filename"
ByFilename(r) ==
    /\ r.op = "retrieve_time_coverage"
    /\ IF "retrieve_method" \in DOMAIN r THEN r.retrieve_method = "filename"
       ELSE time_coverage[r.d].mode = "filename"

C26_CachedNoMatchReturned ==
    /\ ret # Idle /\ ByFilename(ret) /\ NothingFound(ret.d, ret.filename)
    /\ ret.err = "none" /\ ret.hit

(***************************************************************************)
(* C27: the save at exit after a failed load                                *)
(***************************************************************************)
\* the load of the file runs into an error: the file is not JSON, or a time
\* in it cannot be parsed
NotJson(stored) == ~stored.json /\ stored.content = CorruptFile.content

LoadFails(stored) ==
    NotJson(stored) \/ load_time_coverages(EmptyDict, stored).err # "none"

SameFile(a, b) == a.json = b.json /\ a.content = b.content

\* C27: when the load of the cache file at the construction ran into an error
\* (a file that is not JSON included), the save at exit is not registered and
\* the file is not overwritten at exit
C27_NoSaveAfterFailedLoad ==
    (atexit.given /\ LoadFails(atexit.original))
       => ~atexit.registered /\ SameFile(atexit.file, atexit.original)

\* the file that is not JSON was overwritten at exit
C27_CorruptFileOverwritten ==
    /\ atexit.given /\ atexit.exited
    /\ NotJson(atexit.original)
    /\ atexit.file.json

\* when the constructor raised, the save is not registered and the file is
\* as it was after the exit
C27_NoSaveAfterRaise ==
    (atexit.given /\ atexit.raised)
       => ~atexit.registered /\ SameFile(atexit.file, atexit.original)

\* the constructor raised ValueError and the process exited
C27_RaisedAndExited ==
    atexit.given /\ atexit.raised /\ atexit.exited

(***************************************************************************)
(* C28: the placeholder {name}                                              *)
(***************************************************************************)
\* the file that generate_filename names for the dataset and 12 November
OwnFile(d) == FillTokens(files[d], Day(12, 0, 0), Day(12, 0, 0), _name[d])

YieldedPaths(r) == {r.yielded[i][1] : i \in 1..Len(r.yielded)}

\* C28: {name} stands for the name of the dataset itself, in generate_filename
\* and in the regex: find_files of a dataset finds the existing file that
\* generate_filename names for it, and only files with its own name,
\* whatever other datasets were constructed or renamed
C28_OwnNameAlways ==
    /\ ret.op = "generate_filename" => ret.val = OwnFile(ret.d)
    /\ (ret.op = "find_files" /\ OwnFile(ret.d) \in Range(fs))
          => ret.err = "none" /\ YieldedPaths(ret) = {OwnFile(ret.d)}

\* find_files of a dataset does not find the file of its own name, after
\* another dataset was constructed or renamed
C28_OwnFileNotFound ==
    /\ ret.op = "find_files"
    /\ OwnFile(ret.d) \in Range(fs)
    /\ OwnFile(ret.d) \notin YieldedPaths(ret)
    /\ placeholder_name # _name[ret.d]

\* generate_filename always fills in the name of the dataset itself
C28_GeneratedWithOwnName ==
    ret.op = "generate_filename" => ret.val = OwnFile(ret.d)

\* a file was named for a dataset while the dict of the class held
\* another name
C28_GeneratedAfterRename ==
    /\ ret.op = "generate_filename"
    /\ ret.err = "none"
    /\ placeholder_name # _name[ret.d]

(***************************************************************************)
(* C29, C30: the search over the dates of the period                        *)
(***************************************************************************)
\* C29: find_files yields each file at most once per call
C29_EachFileOnce ==
    ret.op = "find_files" =>
        \A i, j \in 1..Len(ret.yielded) :
            ret.yielded[i][1] = ret.yielded[j][1] => i = j

\* find_files yielded one file twice: the directory of its day was listed
\* for two dates of the period
C29_YieldedTwice ==
    /\ ret.op = "find_files"
    /\ ret.err = "none"
    /\ \E i, j \in 1..Len(ret.yielded) : i < j /\ ret.yielded[i][1] = ret.yielded[j][1]

\* C30: find_files yields every existing file that matches the template and
\* whose interval overlaps the period
C30_Complete ==
    (ret.op = "find_files" /\ ret.err = "none") =>
        \A f \in DatasetFiles(ret.d) :
            OverlapsPeriod(ret.d, f, ret.start, ret.end) => f \in YieldedPaths(ret)

\* find_files did not yield a file whose coverage overlaps the period and
\* starts more than one day before the period
C30_LongFileMissed ==
    /\ ret.op = "find_files"
    /\ ret.err = "none"
    /\ \E f \in DatasetFiles(ret.d) :
          /\ OverlapsPeriod(ret.d, f, ret.start, ret.end)
          /\ DtLess(CoverageNow(ret.d, f).val[1], DtAdd(ret.start, TD(-1, 0, 0)))
          /\ f \notin YieldedPaths(ret)

\* with a period that ends at midnight, find_files yielded every file that
\* overlaps it although the last date was not searched
C30_MidnightEndComplete ==
    /\ ret.op = "find_files"
    /\ ret.err = "none"
    /\ files[ret.d] = TplDaily
    /\ ret.end = Day(14, 0, 0)
    /\ Len(ret.yielded) > 0
    /\ \A f \in DatasetFiles(ret.d) :
          OverlapsPeriod(ret.d, f, ret.start, ret.end) => f \in YieldedPaths(ret)

====
